---- MODULE Spec2Model ----
(***************************************************************************)
(* Verification model of the Douyin export ETL engine                      *)
(* (src/app/core/etl_douyin.py) and of its callers (src/app/cli/main.py,   *)
(* src/app/ui/streamlit_app.py).                                           *)
(*                                                                         *)
(* Text.  A Python str is a sequence of one-character tokens.  TLA+        *)
(* strings are ASCII, so the CJK characters of the source are written as   *)
(* ASCII tokens:  "wan" is the character 万;  column and table names are   *)
(* written in pinyin ("shangpin" is 商品, "xiaoliang" is 销量, ...).       *)
(*                                                                         *)
(* Numbers.  A float is an exact decimal <<m, e>> meaning m * 10^e, kept   *)
(* normalised (m has no trailing zero; zero is <<0, 0>>).  Binary rounding *)
(* of float64 is modelled for the delimiter scores only.  Null (Python     *)
(* None / polars null) is <<>>.                                            *)
(***************************************************************************)
EXTENDS Integers, Sequences, FiniteSets, TLC

VARIABLES
    \* ---- parse_fuzzy_numeric_range (etl_douyin.py 596-683) ----
    series,        \* the input column: a sequence of cells (str or None)
    fz_pc,         \* "loop" | "done" | "raised"
    fz_i,          \* number of cells of series.to_list() already consumed
    min_values,    \* the three accumulator lists of the function
    max_values,
    avg_values,
    fz_warnings,   \* number of logger.warning calls made by the except clause
    fz_result      \* the returned dict {min, max, avg}, or NoResult

fvars == <<series, fz_pc, fz_i, min_values, max_values, avg_values, fz_warnings, fz_result>>

VARIABLES
    \* ---- _detect_tables_in_sheet (etl_douyin.py 291-436) ----
    df_pandas,                 \* the grid: a sequence of rows of cells (str or NaN)
    seg_pc,                    \* "scan" | "blocks" | "done"
    possible_header_indices,   \* 0-based row indices, ascending
    seg_i,                     \* index i of the block loop (line 359)
    tables                     \* the dict under construction, in insertion order

svars == <<df_pandas, seg_pc, possible_header_indices, seg_i, tables>>

VARIABLES
    \* ---- process_douyin_export (etl_douyin.py 895-1017) ----
    parsed,            \* what parse_messy_file does for the file: raises, or a dict of tables
    field_mapping,     \* config['field_mapping'] of field_map.yml (<<>> when absent)
    config_load,       \* what reading field_map.yml does: "loaded" | "open_fails" | "empty_document"
    proc_pc,           \* "parse" | "select" | "clean" | "map" | "return" | "raised" | "returned"
    main_table_name,   \* the name of the chosen main table, "" before it is chosen
    main_df,           \* the chosen main table
    cleaned_df,        \* the dataset being built
    clean_failed,      \* the except clause of line 972 ran
    proc_result        \* the value returned: a dataset, or PyNone

pvars == <<parsed, field_mapping, config_load, proc_pc, main_table_name, main_df, cleaned_df, clean_failed, proc_result>>

VARIABLES
    \* ---- batch (cli/main.py 218-369) ----
    input_files,       \* per input file, what process_douyin_export does for it
    output_format,     \* the --format option
    batch_pc,          \* "loop" | "report" | "done"
    batch_i,           \* the loop index i of line 312
    success_count,
    failed_files,      \* the files appended at line 342, in order
    written,           \* the output files written in this run, by input file
    calls              \* the files handed to process_douyin_export, in order

bvars == <<input_files, output_format, batch_pc, batch_i, success_count, failed_files,
           written, calls>>

VARIABLES
    \* ---- the upload handlers (ui/streamlit_app.py) ----
    handler,           \* "main" | "process_single_file" | "process_multiple_files"
    uploaded_files,    \* per upload, what each step of its processing does
    up_pc,             \* "loop" | "done"
    up_i,              \* uploads processed so far
    disk,              \* the temporary files that exist, by upload
    tmp_file_path,     \* the local of that name: 0 when unbound, else the upload it names
    up_failed,         \* failed_files of the handler
    up_processed       \* processed_files / processed_dfs of the handler

uvars == <<handler, uploaded_files, up_pc, up_i, disk, tmp_file_path, up_failed, up_processed>>

VARIABLES
    \* ---- clean_common_fields on the cells (etl_douyin.py 686-821) ----
    cl_df,             \* the table to clean: column names and, per column, its cells
    cl_pc,             \* "collect" | "select" | "done"
    processed_columns, \* the output names collected, with the cells of each
    cl_out             \* what the call yields: an exception, or the cleaned table

cvars == <<cl_df, cl_pc, processed_columns, cl_out>>

VARIABLES
    \* ---- info (cli/main.py 372-423) ----
    info_tables,       \* the tables the file holds, as a dict
    info_pc,           \* "run" | "done"
    info_report,       \* the tables printed: name, rows, columns, column names
    info_exit          \* the exit code of the command

ivars == <<info_tables, info_pc, info_report, info_exit>>

VARIABLES
    \* ---- the text path of _parse_csv_with_pandas (etl_douyin.py 192-201) ----
    tk_text,           \* the decoded text of the file, one token per character
    tk_pc,             \* "read" | "detect" | "parse" | "parsed" | "reparsed" | "raised"
    lines,             \* the stripped non-blank lines (line 194)
    separator,         \* the delimiter inferred (line 197)
    df_text,           \* the grid built by _parse_multiformat_lines (line 201)
    df_first           \* the grid of the first pass, once its rows are written back

tvars == <<tk_text, tk_pc, lines, separator, df_text, df_first>>

VARIABLES
    \* ---- detect_encoding (etl_douyin.py 25-79) ----
    enc_file,             \* the file, as far as decoding goes
    detected_encoding,    \* result['encoding'] of chardet.detect
    encoding_candidates,
    enc_i,                \* position in the loop over the candidates
    enc_pc,               \* "detect" | "try" | "done"
    enc_result            \* the encoding returned

evars == <<enc_file, detected_encoding, encoding_candidates, enc_i, enc_pc, enc_result>>

vars == <<fvars, svars, pvars, bvars, uvars, cvars, ivars, tvars, evars>>

\* the state of a component that is not running
FuzzyIdle ==
    /\ series = <<>>
    /\ fz_pc = "idle"
    /\ fz_i = 0
    /\ min_values = <<>>
    /\ max_values = <<>>
    /\ avg_values = <<>>
    /\ fz_warnings = 0
    /\ fz_result = <<>>

SegIdle ==
    /\ df_pandas = <<>>
    /\ seg_pc = "idle"
    /\ possible_header_indices = <<>>
    /\ seg_i = 0
    /\ tables = <<>>

ProcIdle ==
    /\ parsed = <<>>
    /\ field_mapping = <<>>
    /\ config_load = ""
    /\ proc_pc = "idle"
    /\ main_table_name = ""
    /\ main_df = <<>>
    /\ cleaned_df = <<>>
    /\ clean_failed = FALSE
    /\ proc_result = <<>>

BatchIdle ==
    /\ input_files = <<>>
    /\ output_format = ""
    /\ batch_pc = "idle"
    /\ batch_i = 0
    /\ success_count = 0
    /\ failed_files = <<>>
    /\ written = {}
    /\ calls = <<>>

UploadIdle ==
    /\ handler = ""
    /\ uploaded_files = <<>>
    /\ up_pc = "idle"
    /\ up_i = 0
    /\ disk = {}
    /\ tmp_file_path = 0
    /\ up_failed = <<>>
    /\ up_processed = <<>>

CleanIdle ==
    /\ cl_df = <<>>
    /\ cl_pc = "idle"
    /\ processed_columns = <<>>
    /\ cl_out = <<>>

InfoIdle ==
    /\ info_tables = <<>>
    /\ info_pc = "idle"
    /\ info_report = <<>>
    /\ info_exit = 0

EncIdle ==
    /\ enc_file = <<>>
    /\ detected_encoding = ""
    /\ encoding_candidates = <<>>
    /\ enc_i = 0
    /\ enc_pc = "idle"
    /\ enc_result = ""

TokenIdle ==
    /\ tk_text = <<>>
    /\ tk_pc = "idle"
    /\ lines = <<>>
    /\ separator = ""
    /\ df_text = [exc |-> "", columns |-> 0, rows |-> <<>>]
    /\ df_first = [exc |-> "", columns |-> 0, rows |-> <<>>]

-----------------------------------------------------------------------------
(* Bounds of the model *)

\* longest free-form cell text enumerated character by character
MaxLen == 4
\* longest column built from the example cells
MaxCol == 2
\* number of columns of a grid
RowWidth == 5
\* most rows of a grid built from the row kinds
MaxRows == 5
\* most rows of a table handed to process_douyin_export
MaxHeight == 2
\* most input files of one batch run
MaxFiles == 3
\* most uploads of one handler run
MaxUploads == 2
\* most cells of a column handed to clean_common_fields
MaxCells == 2
\* most characters of a text file
MaxText == 5
\* most lines of a file whose encoding is detected
MaxFileLines == 11

-----------------------------------------------------------------------------
(* Text helpers: str methods used by the source *)

Digits == {"0", "1", "2", "3", "4", "5", "6", "7", "8", "9"}

DigitVal(c) ==
    CASE c = "0" -> 0 [] c = "1" -> 1 [] c = "2" -> 2 [] c = "3" -> 3
      [] c = "4" -> 4 [] c = "5" -> 5 [] c = "6" -> 6 [] c = "7" -> 7
      [] c = "8" -> 8 [] c = "9" -> 9

\* the set of elements of a sequence
Range(q) == {q[k] : k \in 1..Len(q)}

\* `ch in s`
Contains(s, ch) == \E k \in 1..Len(s) : s[k] = ch

\* s.replace(from, to) for a one-character `from` and `to`
Replace(s, from, to) == [k \in 1..Len(s) |-> IF s[k] = from THEN to ELSE s[k]]

\* s.replace(ch, '')
Remove(s, ch) == SelectSeq(s, LAMBDA c : c # ch)

\* the whitespace str.strip() removes, among the characters of the model
Whitespace == {" ", "\t", "\n"}

RECURSIVE LStrip(_)
LStrip(s) == IF s # <<>> /\ Head(s) \in Whitespace THEN LStrip(Tail(s)) ELSE s

RECURSIVE RStrip(_)
RStrip(s) == IF s # <<>> /\ s[Len(s)] \in Whitespace THEN RStrip(SubSeq(s, 1, Len(s) - 1)) ELSE s

\* s.strip()
Strip(s) == RStrip(LStrip(s))

\* s.split(sep): always at least one part; n separators give n+1 parts
RECURSIVE Split(_, _)
Split(s, sep) ==
    IF ~Contains(s, sep) THEN <<s>>
    ELSE LET k == CHOOSE j \in 1..Len(s) : s[j] = sep /\ \A h \in 1..(j - 1) : s[h] # sep
         IN  <<SubSeq(s, 1, k - 1)>> \o Split(SubSeq(s, k + 1, Len(s)), sep)

\* s.isdigit()
IsDigitStr(s) == s # <<>> /\ \A k \in 1..Len(s) : s[k] \in Digits

-----------------------------------------------------------------------------
(* Decimal numbers *)

Null == <<>>

RECURSIVE Norm(_, _)
Norm(m, e) ==
    IF m = 0 THEN <<0, 0>>
    ELSE IF m % 10 = 0 THEN Norm(m \div 10, e + 1)
    ELSE <<m, e>>

RECURSIVE Pow10(_)
Pow10(n) == IF n = 0 THEN 1 ELSE 10 * Pow10(n - 1)

Add(a, b) ==
    LET e == IF a[2] < b[2] THEN a[2] ELSE b[2]
    IN  Norm(a[1] * Pow10(a[2] - e) + b[1] * Pow10(b[2] - e), e)

\* x * 10000
Times10000(a) == Norm(a[1], a[2] + 4)

\* x / 2
Half(a) == Norm(a[1] * 5, a[2] - 1)

\* a <= b
Leq(a, b) ==
    LET e == IF a[2] < b[2] THEN a[2] ELSE b[2]
    IN  a[1] * Pow10(a[2] - e) <= b[1] * Pow10(b[2] - e)

RECURSIVE DigitsToInt(_)
DigitsToInt(s) ==
    IF s = <<>> THEN 0
    ELSE 10 * DigitsToInt(SubSeq(s, 1, Len(s) - 1)) + DigitVal(s[Len(s)])

\* the text of a float literal after its sign
Unsigned(t) == IF t # <<>> /\ Head(t) = "-" THEN Tail(t) ELSE t

\* digits with at most one decimal point and at least one digit
DecimalBody(body) ==
    /\ body # <<>>
    /\ \A k \in 1..Len(body) : body[k] \in Digits \cup {"."}
    /\ Cardinality({k \in 1..Len(body) : body[k] = "."}) <= 1
    /\ \E k \in 1..Len(body) : body[k] \in Digits

\* float(s) succeeds: optional surrounding blanks, optional sign, then a decimal
\* body.  (Exponents, inf, nan and underscores use characters outside the
\* model's alphabet.)
FloatOk(s) == DecimalBody(Unsigned(Strip(s)))

\* number of digits after the decimal point
FracDigits(body) ==
    IF Contains(body, ".")
    THEN Len(body) - (CHOOSE k \in 1..Len(body) : body[k] = ".")
    ELSE 0

Signed(t, m) == IF Head(t) = "-" THEN 0 - m ELSE m

DecimalVal(t, body) == Norm(Signed(t, DigitsToInt(Remove(body, "."))), 0 - FracDigits(body))

StrippedVal(t) == DecimalVal(t, Unsigned(t))

\* the value of float(s), for FloatOk(s)
FloatVal(s) == StrippedVal(Strip(s))

-----------------------------------------------------------------------------
(* parse_fuzzy_numeric_range: the body of the for loop *)

\* series.to_list() yields None for a null cell
None == <<"<None>">>

NoExc == "none"
ValueError == "ValueError"

\* the exception classes `except Exception` catches
CaughtByExceptException == {ValueError, "TypeError", "AttributeError"}

\* float(x), as [exc, val]
Float(s) ==
    IF FloatOk(s) THEN [exc |-> NoExc, val |-> FloatVal(s)]
    ELSE [exc |-> ValueError, val |-> Null]

\* f * 10000, f being the outcome of a float() call
Scaled(f) == IF f.exc = NoExc THEN [exc |-> NoExc, val |-> Times10000(f.val)] ELSE f

\* one bound, or one single value carrying the ten-thousand marker:
\*   float(part.replace('w', '')) * 10000 if 'w' in part else float(part)
ParseBound(part) ==
    IF Contains(part, "w") THEN Scaled(Float(Remove(part, "w"))) ELSE Float(part)

\* str_val = str(value).strip(); then the three replace calls
CleanStr(value) ==
    Remove(Replace(Replace(Strip(value), "wan", "w"), "W", "w"), "%")

\* the three appends of one loop iteration
Append3(L, a, b, c) ==
    [min |-> Append(L.min, a), max |-> Append(L.max, b), avg |-> Append(L.avg, c)]

AppendNulls(L) == Append3(L, Null, Null, Null)

\* a mutant: the bounds of a range are stored smallest first
RangeAppendSorted(L, min_val, max_val) ==
    IF Leq(min_val, max_val)
    THEN Append3(L, min_val, max_val, Half(Add(min_val, max_val)))
    ELSE Append3(L, max_val, min_val, Half(Add(min_val, max_val)))

\* min_values.append(min_val); max_values.append(max_val);
\* avg_values.append((min_val + max_val) / 2)
RangeAppend(L, min_val, max_val) ==
    Append3(L, min_val, max_val, Half(Add(min_val, max_val)))

\* a mutant: the lower bound is appended before the upper bound is parsed
RangeOutcomeEarlyAppend(L, lo, hi) ==
    IF lo.exc # NoExc THEN [L |-> L, exc |-> lo.exc]
    ELSE IF hi.exc # NoExc
         THEN [L |-> [L EXCEPT !.min = Append(@, lo.val)], exc |-> hi.exc]
    ELSE [L |-> RangeAppend(L, lo.val, hi.val), exc |-> NoExc]

\* lines 634-648, lo and hi being the outcomes of parsing the two bounds in
\* that order: a float() that raises leaves before anything is appended
RangeOutcome(L, lo, hi) ==
    IF lo.exc # NoExc THEN [L |-> L, exc |-> lo.exc]
    ELSE IF hi.exc # NoExc THEN [L |-> L, exc |-> hi.exc]
    ELSE [L |-> RangeAppend(L, lo.val, hi.val), exc |-> NoExc]

\* lines 631-648
RangeBody(L, min_part, max_part) ==
    RangeOutcome(L, ParseBound(min_part), ParseBound(max_part))

\* lines 629-652: parts = str_val.split('~')
RangeBranch(L, parts) ==
    IF Len(parts) = 2
    THEN RangeBody(L, Strip(parts[1]), Strip(parts[2]))
    ELSE [L |-> AppendNulls(L), exc |-> NoExc]

\* lines 664-671, v being the outcome of computing val
SingleOutcome(L, v) ==
    IF v.exc # NoExc THEN [L |-> L, exc |-> v.exc]
    ELSE [L |-> Append3(L, v.val, v.val, v.val), exc |-> NoExc]

\* lines 654-671
SingleBranch(L, str_val) ==
    IF Contains(str_val, "w") THEN SingleOutcome(L, ParseBound(str_val))
    ELSE IF IsDigitStr(Remove(Remove(str_val, "."), "-"))
         THEN SingleOutcome(L, Float(str_val))
    ELSE [L |-> AppendNulls(L), exc |-> NoExc]

\* lines 626-671
Dispatch(L, str_val) ==
    IF Contains(str_val, "~")
    THEN RangeBranch(L, Split(str_val, "~"))
    ELSE SingleBranch(L, str_val)

\* the try block for one value (lines 616-671): the lists after it, and the
\* exception that left it (NoExc when it ran to its end)
TryBody(L, value) ==
    IF value = None \/ value = <<>>
    THEN [L |-> AppendNulls(L), exc |-> NoExc]
    ELSE Dispatch(L, CleanStr(value))

\* a mutant: the handler is `except TypeError`, so a ValueError escapes
CatchesTypeErrorOnly(exc) == exc = "TypeError"

\* `except Exception as e`
Catches(exc) == exc \in CaughtByExceptException

\* lines 673-677, t being the outcome of the try block
ExceptClause(t) ==
    IF t.exc = NoExc THEN [L |-> t.L, warned |-> 0, escaped |-> FALSE]
    ELSE IF Catches(t.exc)
         THEN [L |-> AppendNulls(t.L), warned |-> 1, escaped |-> FALSE]
    ELSE [L |-> t.L, warned |-> 0, escaped |-> TRUE]

\* one iteration of `for value in series.to_list()`
LoopBody(L, value) == ExceptClause(TryBody(L, value))

-----
(* parse_fuzzy_numeric_range: inputs and the state machine *)

\* characters of the free-form cells ("wan" is 万)
Alphabet == {"1", "5", ".", "w", "wan", "~", "-", "%", "N", " "}

\* every string of at most n characters
StringsUpTo(n) == UNION {[1..k -> Alphabet] : k \in 0..n}

\* cells named by the specification and the claims
ExampleCells ==
    { <<"7", ".", "5", "w", "~", "1", "0", "w">>,      \* "7.5w~10w"
      <<"1", "0", "w", "~", "5", "w">>,                \* "10w~5w"
      <<"1", "w", "-", "2", ".", "5", "w">>,           \* "1w-2.5w"
      <<"1", "w", "~", "2", ".", "5", "w">>,           \* "1w~2.5w"
      <<"N", "/", "A">>,                               \* "N/A"
      <<"w">>,                                         \* "w"
      <<"1", "~", "2", "~", "3">>,                     \* "1~2~3"
      <<"~", "5">>,                                    \* "~5"
      <<"5", "~", "x">>,                               \* "5~x"
      <<"a", "b", "c", "~", "d", "e", "f">>,           \* "abc~def"
      <<"2", "0", "%">>,                               \* "20%"
      <<"2", ".", "5", "W">>,                          \* "2.5W"
      <<"3", "wan">>,                                  \* "3万"
      <<"1", "2", ".", "5", "0">>,                     \* "12.50"
      <<>>,                                            \* ""
      None }

\* every column of at most n example cells
ColumnsUpTo(n) == UNION {[1..k -> ExampleCells] : k \in 0..n}

\* the columns the function is run on: every one-cell column over the
\* free-form strings, and every column of up to MaxCol example cells
Columns == {<<s>> : s \in StringsUpTo(MaxLen)} \cup ColumnsUpTo(MaxCol)

NoResult == [min |-> <<"unset">>, max |-> <<"unset">>, avg |-> <<"unset">>]

FuzzyInit ==
    /\ series \in Columns
    /\ fz_pc = "loop"
    /\ fz_i = 0
    /\ min_values = <<>>
    /\ max_values = <<>>
    /\ avg_values = <<>>
    /\ fz_warnings = 0
    /\ fz_result = NoResult
    /\ SegIdle
    /\ ProcIdle
    /\ BatchIdle
    /\ UploadIdle
    /\ CleanIdle
    /\ InfoIdle
    /\ TokenIdle
    /\ EncIdle

\* one iteration of the for loop (lines 614-677)
FuzzyLoop ==
    /\ fz_pc = "loop"
    /\ fz_i < Len(series)
    /\ \E r \in {LoopBody([min |-> min_values, max |-> max_values, avg |-> avg_values],
                             series[fz_i + 1])} :
           /\ min_values' = r.L.min
           /\ max_values' = r.L.max
           /\ avg_values' = r.L.avg
           /\ fz_warnings' = fz_warnings + r.warned
           /\ fz_pc' = IF r.escaped THEN "raised" ELSE "loop"
    /\ fz_i' = fz_i + 1
    /\ UNCHANGED <<series, fz_result>>
    /\ UNCHANGED <<svars, pvars, bvars, uvars, cvars, ivars, tvars, evars>>

\* lines 679-683: the three lists become three Float64 series
FuzzyReturn ==
    /\ fz_pc = "loop"
    /\ fz_i = Len(series)
    /\ fz_result' = [min |-> min_values, max |-> max_values, avg |-> avg_values]
    /\ fz_pc' = "done"
    /\ UNCHANGED <<series, fz_i, min_values, max_values, avg_values, fz_warnings>>
    /\ UNCHANGED <<svars, pvars, bvars, uvars, cvars, ivars, tvars, evars>>

FuzzyNext == FuzzyLoop \/ FuzzyReturn

SpecFuzzy == FuzzyInit /\ [][FuzzyNext]_vars

-----------------------------------------------------------------------------
(* _detect_tables_in_sheet: cells, rows and the header test *)

\* a missing cell of a spreadsheet grid (pandas NaN); the text tokenizer
\* writes "" instead
NaN == "<NaN>"

\* str(cell).strip(): the one padded cell text of the model is " shangpin "
StripCell(c) == IF c = " shangpin " THEN "shangpin" ELSE c

\* pd.notna(cell) and str(cell).strip()
NonBlank(c) == c # NaN /\ StripCell(c) # ""

\* HEADER_KEYWORDS (lines 307-312), in pinyin
HEADER_KEYWORDS ==
    { "shangpin", "xiaoliang", "xiaoshoue", "yongjin", "zhuanhualv", "lianjie", "fenlei",
      "shangpinbiaoti", "shangpinlianjie", "shangpinjiage", "dianpu", "pinpai", "leimu",
      "yongjinbili", "zhiboxiaoshoue", "shangpinkaxiaoshoue", "jin30tianxiaoliang",
      "zhouxiaoliang", "jin1nianxiaoliang", "30tianzhuanhualv", "shangjiashijian",
      "darennicheng" }

\* {'排名', '商品', '佣金比例'} (line 331)
CORE_COMBO == {"paiming", "shangpin", "yongjinbili"}

\* row_values (line 319): the set of distinct trimmed non-blank cell texts
RowValues(row) == {StripCell(row[k]) : k \in {h \in 1..Len(row) : NonBlank(row[h])}}

keyword_matches(row) == Cardinality(HEADER_KEYWORDS \cap RowValues(row))

\* non_empty_cells (line 323) is the size of the set row_values
non_empty_cells(row) == Cardinality(RowValues(row))

is_core_combo(row) == Cardinality(CORE_COMBO \cap RowValues(row)) >= 2

\* lines 334-339; cell_ratio > 0.4 is non_empty_cells / len(row.values) > 4/10
IsHeaderRow(row) ==
    /\ \/ keyword_matches(row) >= 2 /\ non_empty_cells(row) >= 4
       \/ keyword_matches(row) >= 1 /\ non_empty_cells(row) >= 5
       \/ is_core_combo(row) /\ non_empty_cells(row) >= 3
    /\ 10 * non_empty_cells(row) > 4 * Len(row)

\* line 350: the relaxed rule of the second pass
IsRelaxedHeaderRow(row) == keyword_matches(row) >= 1 /\ non_empty_cells(row) >= 3

\* lines 317-339: the 0-based indices of the rows that pass the header test, ascending
StrictIndices(g) ==
    SelectSeq([k \in 1..Len(g) |-> k - 1], LAMBDA idx : IsHeaderRow(g[idx + 1]))

\* lines 348-351: the same with the relaxed test
RelaxedIndices(g) ==
    SelectSeq([k \in 1..Len(g) |-> k - 1], LAMBDA idx : IsRelaxedHeaderRow(g[idx + 1]))

\* lines 314-354: the strict pass, and the relaxed pass when it found nothing
Prescan(g) ==
    IF StrictIndices(g) # <<>> THEN StrictIndices(g) ELSE RelaxedIndices(g)

-----------------------------------------------------------------------------
(* _detect_tables_in_sheet: one block *)

\* a row dropna(how='all') removes: every cell is NaN
AllMissing(row) == \A k \in 1..Len(row) : row[k] = NaN

\* lines 361-362: start_data_idx and end_data_idx of block i (0-based) of a grid of n rows
BlockSpan(phi, i, n) ==
    [start |-> phi[i + 1] + 1, end |-> IF i + 1 < Len(phi) THEN phi[i + 2] ELSE n]

\* lines 365-368: iloc[start:end] then dropna(how='all'); the rows keep their
\* index labels, which are the 0-based grid positions
SliceRows(g, span) ==
    SelectSeq([k \in 1..(span.end - span.start) |-> span.start + k - 1],
              LAMBDA idx : ~AllMissing(g[idx + 1]))

\* lines 374-375: trimmed header cells, blanks replaced by col_<j>
HeaderNames(row) ==
    [k \in 1..Len(row) |->
        IF NonBlank(row[k]) THEN StripCell(row[k]) ELSE "col_" \o ToString(k - 1)]

\* lines 381-390: rest is what remains of header, col_counts the dict of
\* occurrence counters, unique_header the list built so far
RECURSIVE Dedupe(_, _, _)
Dedupe(rest, col_counts, unique_header) ==
    IF rest = <<>> THEN unique_header
    ELSE IF Head(rest) \in DOMAIN col_counts
         THEN Dedupe(Tail(rest),
                     [col_counts EXCEPT ![Head(rest)] = @ + 1],
                     Append(unique_header,
                            Head(rest) \o "_" \o ToString(col_counts[Head(rest)] + 1)))
         ELSE Dedupe(Tail(rest),
                     col_counts @@ (Head(rest) :> 0),
                     Append(unique_header, Head(rest)))

UniqueHeader(header) == Dedupe(header, <<>>, <<>>)

\* ' '.join(cells) of a non-empty list of texts
RECURSIVE JoinCells(_)
JoinCells(cells) ==
    IF Len(cells) = 1 THEN cells[1]
    ELSE cells[1] \o " " \o JoinCells(Tail(cells))

\* the trimmed non-blank cell texts of a row, in order
NonBlankTexts(row) ==
    SelectSeq([k \in 1..Len(row) |-> StripCell(row[k])], LAMBDA c : c # NaN /\ c # "")

\* title_candidate (lines 399-400); "" when the row is blank
TitleCandidate(row) ==
    IF NonBlankTexts(row) = <<>> THEN "" ELSE JoinCells(NonBlankTexts(row))

\* the cell texts of the model that contain one of table_keywords (line 403):
\* 抖音销量榜 (销量榜, 抖音) and 直播销售额 (直播)
CellsWithTableKeyword == {"douyinxiaoliangbang", "zhiboxiaoshoue"}

\* the cell texts of the model that contain 榜 or 库 (line 408)
CellsWithMarker == {"douyinxiaoliangbang", "remaibang"}

\* lines 404-410: a keyword occurs in the joined text exactly when it occurs
\* in one of the joined cells (no keyword contains a blank)
IsTitleRow(row) ==
    /\ TitleCandidate(row) # ""
    /\ RowValues(row) \cap (CellsWithTableKeyword \cup CellsWithMarker) # {}

\* the rows range(max(0, header_idx - 3), header_idx) visits
TitleSearchRows(header_idx) ==
    {j \in 0..(header_idx - 1) : j >= header_idx - 3}

\* lines 395-410: the default name, or the text of the first title row among
\* the (up to) 3 rows above the header, nearest last
TableName(g, i, header_idx) ==
    IF \E j \in TitleSearchRows(header_idx) : IsTitleRow(g[j + 1])
    THEN TitleCandidate(
             g[(CHOOSE j \in TitleSearchRows(header_idx) :
                   /\ IsTitleRow(g[j + 1])
                   /\ \A h \in TitleSearchRows(header_idx) :
                          IsTitleRow(g[h + 1]) => j <= h) + 1])
    ELSE "shujubiao_" \o ToString(i + 1)

\* tables[name] = table: a dict keeps the position of a key it already holds
DictSet(d, name, table) ==
    IF \E k \in 1..Len(d) : d[k].name = name
    THEN [k \in 1..Len(d) |-> IF d[k].name = name THEN table ELSE d[k]]
    ELSE Append(d, table)

\* the table of block i: its name, its columns and the index labels of its rows
BlockTable(g, phi, i, rows) ==
    [name    |-> TableName(g, i, phi[i + 1]),
     columns |-> UniqueHeader(HeaderNames(g[phi[i + 1] + 1])),
     rows    |-> rows]

\* one iteration of the loop of line 359, rows being the rows left by dropna
BlockStep(d, g, phi, i, rows) ==
    IF rows = <<>> THEN d
    ELSE DictSet(d, TableName(g, i, phi[i + 1]), BlockTable(g, phi, i, rows))

\* line 421: the non-blank cells of a row, as a list
NonBlankCount(row) == Cardinality({k \in 1..Len(row) : NonBlank(row[k])})

\* the rows iloc[idx:].iloc[1:] keeps after dropna(how='all')
FallbackRows(g, idx) ==
    SelectSeq([k \in 1..(Len(g) - idx - 1) |-> idx + k], LAMBDA r : ~AllMissing(g[r + 1]))

\* lines 423-433, idx being the first row with at least 3 non-blank cells: the
\* header cells are used as they are
FallbackAt(g, sheet_name, idx) ==
    IF FallbackRows(g, idx) = <<>> THEN <<>>
    ELSE << [name    |-> sheet_name \o "_shujubiao",
             columns |-> HeaderNames(g[idx + 1]),
             rows    |-> FallbackRows(g, idx)] >>

\* lines 417-434: reached with no table in the dict
Fallback(g, sheet_name) ==
    IF \E k \in 1..Len(g) : NonBlankCount(g[k]) >= 3
    THEN FallbackAt(g, sheet_name,
                    (CHOOSE k \in 1..Len(g) :
                        /\ NonBlankCount(g[k]) >= 3
                        /\ \A h \in 1..(k - 1) : NonBlankCount(g[h]) < 3) - 1)
    ELSE <<>>

-----------------------------------------------------------------------------
(* _detect_tables_in_sheet: inputs and the state machine *)

\* a row of RowWidth cells: the given cells, then the filler
Padded(cells, filler) ==
    [k \in 1..RowWidth |-> IF k <= Len(cells) THEN cells[k] ELSE filler]

\* 排名, 商品, 销量, 佣金比例, 直播销售额
HeaderRow == Padded(<<"paiming", "shangpin", "xiaoliang", "yongjinbili", "zhiboxiaoshoue">>, "")
\* 商品 and two other texts: a header for the relaxed rule only
WeakHeaderRow == Padded(<<"shangpin", "kouhong", "beizhu">>, "")
\* 抖音销量榜 alone on its line
TitleRow == Padded(<<"douyinxiaoliangbang">>, "")
DataRow == Padded(<<"1", "kouhong", "7.5w~10w", "20%", "5000">>, "")
BlankTextRow == Padded(<<>>, "")
MissingRow == Padded(<<>>, NaN)

RowKinds == {HeaderRow, WeakHeaderRow, TitleRow, DataRow, BlankTextRow, MissingRow}

\* grids of up to MaxRows rows of these kinds
KindGrids == UNION {[1..n -> RowKinds] : n \in 1..MaxRows}

\* cell texts of the header rows enumerated cell by cell
HeaderCells == {"shangpin", " shangpin ", "shangpin_1", "paiming", "", NaN}

\* a free-form first row followed by one data row
HeaderGrids == {<<h, DataRow>> : h \in [1..RowWidth -> HeaderCells]}

\* the grid of the specification's example: 15 rows, header rows at indices 2
\* and 9, no blank row; the rows just above the two headers are data or title rows
ExampleGrids ==
    { [k \in 1..15 |->
          IF k - 1 \in {2, 9} THEN HeaderRow
          ELSE IF k - 1 = 1 THEN above1
          ELSE IF k - 1 = 8 THEN above2
          ELSE DataRow] : above1 \in {DataRow, TitleRow}, above2 \in {DataRow, TitleRow} }

\* 编号, 名称, 备注, 说明, 日期: a header with no vocabulary keyword
PlainHeaderRow == Padded(<<"bianhao", "mingcheng", "beizhu", "shuoming", "riqi">>, "")
\* 商品, 销量, 品牌, 编号, 日期: a header with three vocabulary keywords
ThreeKeywordHeaderRow == Padded(<<"shangpin", "xiaoliang", "pinpai", "bianhao", "riqi">>, "")

\* a file of two blocks, each a header and one or two data rows, in either order
TwoBlockGrids ==
    { <<h[1]>> \o [k \in 1..n[1] |-> DataRow] \o <<h[2]>> \o [k \in 1..n[2] |-> DataRow] :
          h \in { <<PlainHeaderRow, ThreeKeywordHeaderRow>>,
                  <<ThreeKeywordHeaderRow, PlainHeaderRow>> },
          n \in (1..2) \X (1..2) }

Grids == KindGrids \cup HeaderGrids \cup ExampleGrids \cup TwoBlockGrids

\* the sheet name the text path passes (line 206)
SheetName == "main"

SegInit ==
    /\ df_pandas \in Grids
    /\ seg_pc = "scan"
    /\ possible_header_indices = <<>>
    /\ seg_i = 0
    /\ tables = <<>>
    /\ FuzzyIdle
    /\ ProcIdle
    /\ BatchIdle
    /\ UploadIdle
    /\ CleanIdle
    /\ InfoIdle
    /\ TokenIdle
    /\ EncIdle

\* lines 314-356: the prescan; no header at all returns {} at line 354
SegScan ==
    /\ seg_pc = "scan"
    /\ possible_header_indices' = Prescan(df_pandas)
    /\ seg_pc' = IF Prescan(df_pandas) = <<>> THEN "done" ELSE "blocks"
    /\ UNCHANGED <<df_pandas, seg_i, tables>>
    /\ UNCHANGED <<fvars, pvars, bvars, uvars, cvars, ivars, tvars, evars>>

\* lines 359-414: one iteration of the block loop
SegBlock ==
    /\ seg_pc = "blocks"
    /\ seg_i < Len(possible_header_indices)
    /\ tables' = BlockStep(tables, df_pandas, possible_header_indices, seg_i,
                           SliceRows(df_pandas,
                                     BlockSpan(possible_header_indices, seg_i, Len(df_pandas))))
    /\ seg_i' = seg_i + 1
    /\ UNCHANGED <<df_pandas, seg_pc, possible_header_indices>>
    /\ UNCHANGED <<fvars, pvars, bvars, uvars, cvars, ivars, tvars, evars>>

\* lines 416-436: the single-block fallback when the loop left no table, then return
SegReturn ==
    /\ seg_pc = "blocks"
    /\ seg_i = Len(possible_header_indices)
    /\ tables' = IF tables = <<>> /\ df_pandas # <<>>
                 THEN Fallback(df_pandas, SheetName)
                 ELSE tables
    /\ seg_pc' = "done"
    /\ UNCHANGED <<df_pandas, possible_header_indices, seg_i>>
    /\ UNCHANGED <<fvars, pvars, bvars, uvars, cvars, ivars, tvars, evars>>

SegNext == SegScan \/ SegBlock \/ SegReturn

SpecSeg == SegInit /\ [][SegNext]_vars

-----------------------------------------------------------------------------
(* clean_common_fields and apply_field_mapping *)

\* A DataFrame is [columns, height, nulltyped]: its column names in order, its
\* number of rows, and the columns whose dtype is Null rather than Utf8 (a
\* spreadsheet column with no value in the block: pl.from_pandas, lines 158, 212).

\* Python's None, where a DataFrame is expected
PyNone == [none |-> TRUE]

\* pl.DataFrame()
EmptyFrame == [columns |-> <<>>, height |-> 0, nulltyped |-> {}]

\* `field in df.columns`
HasColumn(df, field) == \E k \in 1..Len(df.columns) : df.columns[k] = field

\* the fields of fields that df has, in the order of fields
Present(df, fields) == SelectSeq(fields, LAMBDA f : HasColumn(df, f))

\* lines 720-721: 近30天销量, 周销量, 近1年销量, 销售额, 近30天销售额, 近1年销售额,
\* 昨日销量, 近90天销量, 同期销量, 周带货达人, 关联达人
range_fields ==
    << "jin30tianxiaoliang", "zhouxiaoliang", "jin1nianxiaoliang", "xiaoshoue",
       "jin30tianxiaoshoue", "jin1nianxiaoshoue", "zuorixiaoliang", "jin90tianxiaoliang",
       "tongqixiaoliang", "zhoudaihuodaren", "guanliandaren" >>

\* line 749: 直播销售额, 商品卡销售额
numeric_fields == <<"zhiboxiaoshoue", "shangpinkaxiaoshoue">>

\* line 762: 转化率, 30天转化率
rate_fields == <<"zhuanhualv", "30tianzhuanhualv">>

\* lines 782-783: 商品, 商品链接, 商品分类, 商品头图链接, 蝉妈妈商品链接, 抖音商品链接,
\* 小店, 品牌, 蝉妈妈链接
text_fields ==
    << "shangpin", "shangpinlianjie", "shangpinfenlei", "shangpintoutulianjie",
       "chanmamashangpinlianjie", "douyinshangpinlianjie", "xiaodian", "pinpai",
       "chanmamalianjie" >>

\* line 790: 排名
keep_as_is_fields == <<"paiming">>

\* line 709: 佣金比例
commission_field == <<"yongjinbili">>

\* the three output names of one fuzzy field
MinMaxAvg(field) == <<field \o "_min", field \o "_max", field \o "_avg">>

RECURSIVE Suffixed(_)
Suffixed(fields) ==
    IF fields = <<>> THEN <<>> ELSE MinMaxAvg(Head(fields)) \o Suffixed(Tail(fields))

\* processed_columns (lines 706-796): the output names, in the order appended
ProcessedColumns(df) ==
    Present(df, commission_field)
        \o Suffixed(Present(df, range_fields))
        \o Present(df, numeric_fields)
        \o Suffixed(Present(df, rate_fields))
        \o Present(df, text_fields)
        \o Present(df, keep_as_is_fields)

\* the expressions that go through the .str namespace (lines 712-713, 755-756)
\* fail in df.select when the column is not Utf8
CleanRaises(df) ==
    \E f \in Range(commission_field) \cup Range(numeric_fields) :
        HasColumn(df, f) /\ f \in df.nulltyped

\* lines 798-821, for a df on which select does not raise
CleanFrame(df) ==
    IF ProcessedColumns(df) = <<>> THEN EmptyFrame
    ELSE [columns |-> ProcessedColumns(df), height |-> df.height, nulltyped |-> {}]

\* clean_common_fields, as [exc, df]
clean_common_fields(df) ==
    IF ProcessedColumns(df) # <<>> /\ CleanRaises(df)
    THEN [exc |-> "SchemaError", df |-> df]
    ELSE [exc |-> NoExc, df |-> CleanFrame(df)]

\* the columns renamed, every other column given a new name as well
RenamedOthersToo(columns, mapping) ==
    [k \in 1..Len(columns) |->
        IF columns[k] \in DOMAIN mapping THEN mapping[columns[k]] ELSE columns[k] \o "_"]

\* lines 1059-1067: the columns after df.rename(rename_mapping)
Renamed(columns, mapping) ==
    [k \in 1..Len(columns) |->
        IF columns[k] \in DOMAIN mapping THEN mapping[columns[k]] ELSE columns[k]]

HasDuplicates(columns) ==
    \E a, b \in 1..Len(columns) : a # b /\ columns[a] = columns[b]

\* load_field_mapping_config (lines 1020-1036), as [none, field_mapping]: the
\* document yaml.safe_load returns (None for an empty file), or {} when
\* opening or parsing the file raises
load_field_mapping_config(load, mapping) ==
    [ none          |-> (load = "empty_document"),
      field_mapping |-> IF load = "loaded" THEN mapping ELSE <<>> ]

\* apply_field_mapping (lines 1039-1072), as [exc, df]: config.get raises on
\* None, an empty mapping returns df, rename raises on a duplicate output name
apply_field_mapping(df, config) ==
    IF config.none THEN [exc |-> "AttributeError", df |-> df]
    ELSE IF DOMAIN config.field_mapping = {} THEN [exc |-> NoExc, df |-> df]
    ELSE IF HasDuplicates(Renamed(df.columns, config.field_mapping))
         THEN [exc |-> "DuplicateError", df |-> df]
    ELSE [exc |-> NoExc,
          df  |-> [ columns   |-> Renamed(df.columns, config.field_mapping),
                    height    |-> df.height,
                    nulltyped |-> { Renamed(<<c>>, config.field_mapping)[1] : c \in df.nulltyped } ]]

-----------------------------------------------------------------------------
(* process_douyin_export *)


\* line 937: 抖音销量榜, SKU商品库, 直播销量榜, 商品卡销量榜
priority_tables ==
    <<"douyinxiaoliangbang", "SKUshangpinku", "zhiboxiaoliangbang", "shangpinkaxiaoliangbang">>

\* the table names of the model that contain 销量, 商品, 榜 or 库 (line 945):
\* the priority names, 热卖榜 and 商品备注; 数据表_1 and main_数据表 do not
NamesWithKeyword ==
    Range(priority_tables) \cup {"remaibang", "shangpinbeizhu"}

\* the first of a set of positions of the dict (the loops break there), or 0
FirstOf(positions) ==
    IF positions = {} THEN 0
    ELSE CHOOSE k \in positions : \A h \in positions : k <= h

\* lines 938-941: the first priority name that is a non-empty table of d, or ""
RECURSIVE PriorityName(_, _)
PriorityName(d, names) ==
    IF names = <<>> THEN ""
    ELSE IF \E k \in 1..Len(d) : d[k].name = Head(names) /\ d[k].df.height > 0
         THEN Head(names)
    ELSE PriorityName(d, Tail(names))

NonEmptyTable(t) == t.df.height > 0
NonEmptyWithKeyword(t) == t.df.height > 0 /\ t.name \in NamesWithKeyword

\* a mutant: the first table with rows, whatever its name
SelectFirstNonEmpty(d) == FirstOf({k \in 1..Len(d) : NonEmptyTable(d[k])})

\* lines 933-957: the position of the main table in the dict, or 0
SelectMain(d) ==
    IF PriorityName(d, priority_tables) # ""
    THEN FirstOf({k \in 1..Len(d) : d[k].name = PriorityName(d, priority_tables)})
    ELSE IF \E k \in 1..Len(d) : NonEmptyWithKeyword(d[k])
         THEN FirstOf({k \in 1..Len(d) : NonEmptyWithKeyword(d[k])})
    ELSE FirstOf({k \in 1..Len(d) : NonEmptyTable(d[k])})

\* a mutant: the function returns whatever dataset it has built
FinalValueUnchecked(df) == df

\* lines 1012-1017: the dataset when it has rows, else None
FinalValue(df) == IF df.height > 0 THEN df ELSE PyNone

\* the column names of the model's input tables: 佣金比例, 近30天销量, 转化率, 商品, 备注
InputColumns == <<"yongjinbili", "jin30tianxiaoliang", "zhuanhualv", "shangpin", "beizhu">>

\* every ordered selection of the input columns
ColumnLists ==
    {SelectSeq(InputColumns, LAMBDA c : c \in chosen) : chosen \in SUBSET Range(InputColumns)}

\* the frames of a single-table file; at most one column is Null-typed
Frames ==
    { [columns |-> cols, height |-> h, nulltyped |-> nt] :
        cols \in ColumnLists \ {<<>>}, h \in 0..MaxHeight,
        nt \in {{}, {"yongjinbili"}, {"shangpin"}} }

\* the frames of a file of two tables
SmallFrames ==
    { [columns |-> cols, height |-> h, nulltyped |-> {}] :
        cols \in {<<"shangpin", "beizhu">>, <<"beizhu">>}, h \in 0..1 }

TableNames == {"douyinxiaoliangbang", "SKUshangpinku", "remaibang", "shujubiao_1"}

\* what parse_messy_file can hand back: an exception, no table, one table, or
\* two tables under different names
ParseOutcomes ==
    { [exc |-> "FileNotFoundError", tables |-> <<>>], [exc |-> NoExc, tables |-> <<>>] }
    \cup { [exc |-> NoExc, tables |-> << [name |-> n, df |-> f] >>] :
              n \in TableNames, f \in {g \in Frames : g.nulltyped \subseteq Range(g.columns)} }
    \cup { [exc |-> NoExc, tables |-> << [name |-> n[1], df |-> f1], [name |-> n[2], df |-> f2] >>] :
              n \in {m \in TableNames \X TableNames : m[1] # m[2]},
              f1 \in SmallFrames, f2 \in SmallFrames }

\* what reading field_map.yml can do (lines 1029-1036)
ConfigLoads == {"loaded", "open_fails", "empty_document"}

\* the mappings of the model: none, 商品 renamed, 商品 and 备注 renamed to one name
Mappings ==
    { <<>>,
      ("shangpin" :> "product_name"),
      ("shangpin" :> "title") @@ ("beizhu" :> "title") }

ProcInit ==
    /\ parsed \in ParseOutcomes
    /\ config_load \in ConfigLoads
    /\ field_mapping \in IF config_load = "loaded" THEN Mappings ELSE {<<>>}
    /\ proc_pc = "parse"
    /\ main_table_name = ""
    /\ main_df = PyNone
    /\ cleaned_df = PyNone
    /\ clean_failed = FALSE
    /\ proc_result = PyNone
    /\ FuzzyIdle
    /\ SegIdle
    /\ BatchIdle
    /\ UploadIdle
    /\ CleanIdle
    /\ InfoIdle
    /\ TokenIdle
    /\ EncIdle

\* lines 921-929: a parse error and an empty dict both raise ValueError
ProcParse ==
    /\ proc_pc = "parse"
    /\ proc_pc' = IF parsed.exc # NoExc \/ parsed.tables = <<>> THEN "raised" ELSE "select"
    /\ UNCHANGED <<parsed, field_mapping, config_load, main_table_name, main_df, cleaned_df, clean_failed, proc_result>>
    /\ UNCHANGED <<fvars, svars, bvars, uvars, cvars, ivars, tvars, evars>>

\* lines 933-963: choose the main table, or raise when every table is empty
ProcSelect ==
    /\ proc_pc = "select"
    /\ \E k \in {SelectMain(parsed.tables)} :
           IF k = 0
           THEN proc_pc' = "raised" /\ UNCHANGED <<main_table_name, main_df>>
           ELSE /\ proc_pc' = "clean"
                /\ main_table_name' = parsed.tables[k].name
                /\ main_df' = parsed.tables[k].df
    /\ UNCHANGED <<parsed, field_mapping, config_load, cleaned_df, clean_failed, proc_result>>
    /\ UNCHANGED <<fvars, svars, bvars, uvars, cvars, ivars, tvars, evars>>

\* lines 968-976: clean the main table; when cleaning raises, the raw table is kept
ProcClean ==
    /\ proc_pc = "clean"
    /\ \E r \in {clean_common_fields(main_df)} :
           /\ cleaned_df' = IF r.exc = NoExc THEN r.df ELSE main_df
           /\ clean_failed' = (r.exc # NoExc)
    /\ proc_pc' = "map"
    /\ UNCHANGED <<parsed, field_mapping, config_load, main_table_name, main_df, proc_result>>
    /\ UNCHANGED <<fvars, svars, bvars, uvars, cvars, ivars, tvars, evars>>

\* lines 1001-1007: apply the mapping; when it raises, the names are kept
ProcMap ==
    /\ proc_pc = "map"
    /\ \E r \in {apply_field_mapping(cleaned_df, load_field_mapping_config(config_load, field_mapping))} :
           cleaned_df' = IF r.exc = NoExc THEN r.df ELSE cleaned_df
    /\ proc_pc' = "return"
    /\ UNCHANGED <<parsed, field_mapping, config_load, main_table_name, main_df, clean_failed, proc_result>>
    /\ UNCHANGED <<fvars, svars, bvars, uvars, cvars, ivars, tvars, evars>>

\* lines 1011-1017
ProcReturn ==
    /\ proc_pc = "return"
    /\ proc_result' = FinalValue(cleaned_df)
    /\ proc_pc' = "returned"
    /\ UNCHANGED <<parsed, field_mapping, config_load, main_table_name, main_df, cleaned_df, clean_failed>>
    /\ UNCHANGED <<fvars, svars, bvars, uvars, cvars, ivars, tvars, evars>>

ProcNext == ProcParse \/ ProcSelect \/ ProcClean \/ ProcMap \/ ProcReturn

SpecProc == ProcInit /\ [][ProcNext]_vars

-----------------------------------------------------------------------------
(* batch (cli/main.py) *)

\* str.lower() on the format names of the model
Lower(fmt) ==
    IF fmt = "CSV" THEN "csv" ELSE IF fmt = "Parquet" THEN "parquet" ELSE fmt

\* lines 329-334: the formats that have a write branch
WritingFormats == {"parquet", "csv", "json"}

\* what process_douyin_export does for one file: raises, returns None, returns a dataset
EngineOutcomes == {"raise", "none", "df"}

\* lines 326-334 for one file: "raise" when the call or the write raises,
\* "written" when a write branch ran, "skipped" when none did
FileBody(outcome, fmt) ==
    IF outcome = "raise" THEN "raise"
    ELSE IF Lower(fmt) \in WritingFormats
         THEN (IF outcome = "none" THEN "raise" ELSE "written")
    ELSE "skipped"

Formats == {"parquet", "csv", "json", "CSV", "xlsx"}

BatchInit ==
    /\ input_files \in UNION {[1..n -> EngineOutcomes] : n \in 1..MaxFiles}
    /\ output_format \in Formats
    /\ batch_pc = "loop"
    /\ batch_i = 0
    /\ success_count = 0
    /\ failed_files = <<>>
    /\ written = {}
    /\ calls = <<>>
    /\ FuzzyIdle
    /\ SegIdle
    /\ ProcIdle
    /\ UploadIdle
    /\ CleanIdle
    /\ InfoIdle
    /\ TokenIdle
    /\ EncIdle

\* lines 312-344: one iteration of the loop
BatchFile ==
    /\ batch_pc = "loop"
    /\ batch_i < Len(input_files)
    /\ calls' = Append(calls, batch_i + 1)
    /\ \E r \in {FileBody(input_files[batch_i + 1], output_format)} :
           /\ written' = IF r = "written" THEN written \cup {batch_i + 1} ELSE written
           /\ success_count' = IF r = "raise" THEN success_count ELSE success_count + 1
           /\ failed_files' = IF r = "raise" THEN Append(failed_files, batch_i + 1)
                              ELSE failed_files
    /\ batch_i' = batch_i + 1
    /\ UNCHANGED <<input_files, output_format, batch_pc>>
    /\ UNCHANGED <<fvars, svars, pvars, uvars, cvars, ivars, tvars, evars>>

\* lines 346-369: the loop is over, the result panel is printed
BatchReport ==
    /\ batch_pc = "loop"
    /\ batch_i = Len(input_files)
    /\ batch_pc' = "done"
    /\ UNCHANGED <<input_files, output_format, batch_i, success_count, failed_files,
                   written, calls>>
    /\ UNCHANGED <<fvars, svars, pvars, uvars, cvars, ivars, tvars, evars>>

BatchNext == BatchFile \/ BatchReport

SpecBatch == BatchInit /\ [][BatchNext]_vars

-----------------------------------------------------------------------------
(* The upload handlers (ui/streamlit_app.py) *)

\* what the steps do for one upload: tmp_file.write, the processing animation
\* (process_single_file only) and process_douyin_export
UploadScenarios ==
    [write : {"ok", "raise"}, animation : {"ok", "raise"}, engine : EngineOutcomes]

Handlers == {"main", "process_single_file", "process_multiple_files"}

\* the finally clause of main (lines 427-429): the file named by tmp_file_path
\* is removed when that local is bound and the file exists
MainFinally(files, path) == IF path # 0 /\ path \in files THEN files \ {path} ELSE files

UploadInit ==
    /\ handler \in Handlers
    /\ uploaded_files \in UNION {[1..n -> UploadScenarios] : n \in 1..MaxUploads}
    /\ handler # "process_single_file" =>
           \A k \in 1..Len(uploaded_files) : uploaded_files[k].animation = "ok"
    /\ up_pc = "loop"
    /\ up_i = 0
    /\ disk = {}
    /\ tmp_file_path = 0
    /\ up_failed = <<>>
    /\ up_processed = <<>>
    /\ FuzzyIdle
    /\ SegIdle
    /\ ProcIdle
    /\ BatchIdle
    /\ CleanIdle
    /\ InfoIdle
    /\ TokenIdle
    /\ EncIdle

\* main, lines 376-429: one iteration.  NamedTemporaryFile(delete=False) puts
\* the file on disk; tmp_file_path is assigned only after the write.
UploadMainFile ==
    /\ handler = "main"
    /\ up_pc = "loop"
    /\ up_i < Len(uploaded_files)
    /\ \E f \in {uploaded_files[up_i + 1]} :
           /\ tmp_file_path' = IF f.write = "ok" THEN up_i + 1 ELSE tmp_file_path
           /\ disk' = MainFinally(disk \cup {up_i + 1},
                                  IF f.write = "ok" THEN up_i + 1 ELSE tmp_file_path)
           /\ IF f.write = "ok" /\ f.engine = "df"
              THEN up_processed' = Append(up_processed, up_i + 1) /\ UNCHANGED up_failed
              ELSE up_failed' = Append(up_failed, up_i + 1) /\ UNCHANGED up_processed
    /\ up_i' = up_i + 1
    /\ UNCHANGED <<handler, uploaded_files, up_pc>>
    /\ UNCHANGED <<fvars, svars, pvars, bvars, cvars, ivars, tvars, evars>>

\* process_single_file, lines 528-553: one call.  The inner try whose finally
\* removes the file starts after the write and the animation.
UploadSingleFile ==
    /\ handler = "process_single_file"
    /\ up_pc = "loop"
    /\ up_i < Len(uploaded_files)
    /\ \E f \in {uploaded_files[up_i + 1]} :
           /\ tmp_file_path' = IF f.write = "ok" THEN up_i + 1 ELSE 0
           /\ disk' = IF f.write = "ok" /\ f.animation = "ok" THEN disk
                      ELSE disk \cup {up_i + 1}
           /\ IF f.write = "ok" /\ f.animation = "ok" /\ f.engine = "df"
              THEN up_processed' = Append(up_processed, up_i + 1) /\ UNCHANGED up_failed
              ELSE up_failed' = Append(up_failed, up_i + 1) /\ UNCHANGED up_processed
    /\ up_i' = up_i + 1
    /\ UNCHANGED <<handler, uploaded_files, up_pc>>
    /\ UNCHANGED <<fvars, svars, pvars, bvars, cvars, ivars, tvars, evars>>

\* process_multiple_files, lines 565-600: one iteration.  A None result raises
\* at with_columns (line 584), inside the inner try.
UploadMultipleFile ==
    /\ handler = "process_multiple_files"
    /\ up_pc = "loop"
    /\ up_i < Len(uploaded_files)
    /\ \E f \in {uploaded_files[up_i + 1]} :
           /\ tmp_file_path' = IF f.write = "ok" THEN up_i + 1 ELSE tmp_file_path
           /\ disk' = IF f.write = "ok" THEN disk ELSE disk \cup {up_i + 1}
           /\ IF f.write = "ok" /\ f.engine = "df"
              THEN up_processed' = Append(up_processed, up_i + 1) /\ UNCHANGED up_failed
              ELSE up_failed' = Append(up_failed, up_i + 1) /\ UNCHANGED up_processed
    /\ up_i' = up_i + 1
    /\ UNCHANGED <<handler, uploaded_files, up_pc>>
    /\ UNCHANGED <<fvars, svars, pvars, bvars, cvars, ivars, tvars, evars>>

\* the handler's loop is over (main 431, process_multiple_files 602)
UploadDone ==
    /\ up_pc = "loop"
    /\ up_i = Len(uploaded_files)
    /\ up_pc' = "done"
    /\ UNCHANGED <<handler, uploaded_files, up_i, disk, tmp_file_path, up_failed, up_processed>>
    /\ UNCHANGED <<fvars, svars, pvars, bvars, cvars, ivars, tvars, evars>>

UploadNext == UploadMainFile \/ UploadSingleFile \/ UploadMultipleFile \/ UploadDone

SpecUpload == UploadInit /\ [][UploadNext]_vars

-----------------------------------------------------------------------------
(* clean_common_fields on the cells *)

\* x / 100; a null stays null
Div100(a) == IF a = Null THEN Null ELSE Norm(a[1], a[2] - 2)

\* polars str.replace(pat, ''): the first occurrence of pat is removed
RECURSIVE ReplaceFirst(_, _)
ReplaceFirst(s, pat) ==
    IF Len(s) < Len(pat) THEN s
    ELSE IF SubSeq(s, 1, Len(pat)) = pat THEN SubSeq(s, Len(pat) + 1, Len(s))
    ELSE <<Head(s)>> \o ReplaceFirst(Tail(s), pat)

\* cast(pl.Float64, strict=False) of a string: the number when the whole text
\* is a decimal literal (blanks are not trimmed), else null
CastFloat(s) == IF DecimalBody(Unsigned(s)) THEN StrippedVal(s) ELSE Null

\* cast(pl.Int64, strict=False) of a string
CastInt(s) ==
    IF IsDigitStr(Unsigned(s)) THEN Norm(Signed(s, DigitsToInt(Unsigned(s))), 0) ELSE Null

\* lines 711-716: 佣金比例; '百分比' is the three characters bai, fen, bi
CommissionCell(c) ==
    IF c = None THEN Null
    ELSE Div100(CastFloat(ReplaceFirst(ReplaceFirst(c, <<"%">>), <<"bai", "fen", "bi">>)))

\* lines 754-757: 直播销售额, 商品卡销售额; "fullcomma" is the character '，'
NumericCell(c) ==
    IF c = None THEN Null
    ELSE CastFloat(ReplaceFirst(ReplaceFirst(c, <<"%">>), <<"fullcomma">>))

\* a mutant: the text columns are trimmed
TextCellStripped(c) == IF c = None THEN c ELSE Strip(c)

\* line 787: pl.col(field)
TextCell(c) == c

\* line 795: 排名
RankCell(c) == IF c = None THEN Null ELSE CastInt(c)

\* a mutant: the range columns are divided by 100 like the rate columns
RangeValueDivided(x) == Div100(x)

\* lines 736-738: a range column keeps the parsed value
RangeValue(x) == x

\* lines 772-774: a rate column is the parsed value / 100
RateValue(x) == Div100(x)

EmptyLists == [min |-> <<>>, max |-> <<>>, avg |-> <<>>]

\* parse_fuzzy_numeric_range(series) as a function of the cells
RECURSIVE FuzzyLists(_, _)
FuzzyLists(L, cells) ==
    IF cells = <<>> THEN L ELSE FuzzyLists(LoopBody(L, Head(cells)).L, Tail(cells))

\* df[field]
CellsOf(df, field) == df.data[CHOOSE k \in 1..Len(df.columns) : df.columns[k] = field]

\* the three series of a range or rate column
TripleData(F, kind) ==
    IF kind = "range"
    THEN << [i \in 1..Len(F.min) |-> RangeValue(F.min[i])],
            [i \in 1..Len(F.max) |-> RangeValue(F.max[i])],
            [i \in 1..Len(F.avg) |-> RangeValue(F.avg[i])] >>
    ELSE << [i \in 1..Len(F.min) |-> RateValue(F.min[i])],
            [i \in 1..Len(F.max) |-> RateValue(F.max[i])],
            [i \in 1..Len(F.avg) |-> RateValue(F.avg[i])] >>

\* the output series of one field, by its classification
FieldData(cells, kind) ==
    CASE kind = "commission" -> << [i \in 1..Len(cells) |-> CommissionCell(cells[i])] >>
      [] kind = "numeric"    -> << [i \in 1..Len(cells) |-> NumericCell(cells[i])] >>
      [] kind = "text"       -> << [i \in 1..Len(cells) |-> TextCell(cells[i])] >>
      [] kind = "keep"       -> << [i \in 1..Len(cells) |-> RankCell(cells[i])] >>
      [] OTHER               -> TripleData(FuzzyLists(EmptyLists, cells), kind)

RECURSIVE FieldsData(_, _, _)
FieldsData(df, fields, kind) ==
    IF fields = <<>> THEN <<>>
    ELSE FieldData(CellsOf(df, Head(fields)), kind) \o FieldsData(df, Tail(fields), kind)

\* the series behind processed_columns (lines 706-796), in the order appended
ProcessedData(df) ==
    FieldsData(df, Present(df, commission_field), "commission")
        \o FieldsData(df, Present(df, range_fields), "range")
        \o FieldsData(df, Present(df, numeric_fields), "numeric")
        \o FieldsData(df, Present(df, rate_fields), "rate")
        \o FieldsData(df, Present(df, text_fields), "text")
        \o FieldsData(df, Present(df, keep_as_is_fields), "keep")

\* a table with its cells; a column with no value at all has dtype Null
Table(cols, data) ==
    [ columns   |-> cols,
      height    |-> Len(data[1]),
      nulltyped |-> {cols[k] : k \in {j \in 1..Len(cols) : \A i \in 1..Len(data[j]) : data[j][i] = None}},
      data      |-> data ]

\* the cells of the model's tables: "20%", "10%~20%", "2w", "5", "kouhong",
\* " kouhong ", "" and a null
CleanCells ==
    { <<"2", "0", "%">>, <<"1", "0", "%", "~", "2", "0", "%">>, <<"2", "w">>, <<"5">>,
      <<"k", "o", "u", "h", "o", "n", "g">>,
      <<" ", "k", "o", "u", "h", "o", "n", "g", " ">>,
      <<>>, None }

\* the column names of the model's tables: 佣金比例, 转化率, 近30天销量, 直播销售额,
\* 商品, 品牌, 排名, 备注
CleanNames ==
    { "yongjinbili", "zhuanhualv", "jin30tianxiaoliang", "zhiboxiaoshoue",
      "shangpin", "pinpai", "paiming", "beizhu" }

\* one column of up to MaxCells cells, or two columns of one cell
CleanTables ==
    { Table(<<n>>, <<cells>>) :
          n \in CleanNames, cells \in UNION {[1..h -> CleanCells] : h \in 1..MaxCells} }
    \cup { Table(<<n[1], n[2]>>, << <<c[1]>>, <<c[2]>> >>) :
              n \in {m \in CleanNames \X CleanNames : m[1] # m[2]},
              c \in CleanCells \X CleanCells }

CleanInit ==
    /\ cl_df \in CleanTables
    /\ cl_pc = "collect"
    /\ processed_columns = <<>>
    /\ cl_out = <<>>
    /\ FuzzyIdle
    /\ SegIdle
    /\ ProcIdle
    /\ BatchIdle
    /\ UploadIdle
    /\ InfoIdle
    /\ TokenIdle
    /\ EncIdle

\* lines 706-796: the output columns are collected
CleanCollect ==
    /\ cl_pc = "collect"
    /\ processed_columns' = [names |-> ProcessedColumns(cl_df), data |-> ProcessedData(cl_df)]
    /\ cl_pc' = "select"
    /\ UNCHANGED <<cl_df, cl_out>>
    /\ UNCHANGED <<fvars, svars, pvars, bvars, uvars, ivars, tvars, evars>>

\* lines 798-821: an empty DataFrame when nothing was collected, else df.select
CleanSelect ==
    /\ cl_pc = "select"
    /\ \E r \in {clean_common_fields(cl_df)} :
           cl_out' = [ exc     |-> r.exc,
                       columns |-> IF r.exc = NoExc THEN r.df.columns ELSE <<>>,
                       data    |-> IF r.exc = NoExc /\ r.df.columns # <<>>
                                   THEN processed_columns.data ELSE <<>> ]
    /\ cl_pc' = "done"
    /\ UNCHANGED <<cl_df, processed_columns>>
    /\ UNCHANGED <<fvars, svars, pvars, bvars, uvars, ivars, tvars, evars>>

CleanNext == CleanCollect \/ CleanSelect

SpecClean == CleanInit /\ [][CleanNext]_vars

-----------------------------------------------------------------------------
(* info (cli/main.py) *)

\* the names a `from core.etl_douyin import ...` can resolve: the module-level
\* definitions of etl_douyin.py
EtlNames ==
    { "logger", "detect_encoding", "parse_messy_file", "_parse_excel_with_pandas",
      "_parse_csv_with_pandas", "_detect_separator_from_lines", "_parse_multiformat_lines",
      "_detect_tables_in_sheet", "_extract_table_data", "_extract_table_name",
      "_fallback_csv_parse", "_parse_table_data", "parse_fuzzy_numeric_range",
      "clean_common_fields", "parse_excel_file", "detect_file_type",
      "process_douyin_export", "load_field_mapping_config", "apply_field_mapping",
      "get_data_quality_report" }

\* line 395: the import raises ImportError for a name the module does not define
ImportFromEtl(name) == IF name \in EtlNames THEN NoExc ELSE "ImportError"

\* line 416: the first five column names
FirstFive(columns) == SubSeq(columns, 1, IF Len(columns) > 5 THEN 5 ELSE Len(columns))

\* lines 409-419: the rows printed for the tables of the dict d
TableReport(d) ==
    [k \in 1..Len(d) |->
        [ name         |-> d[k].name,
          row_count    |-> d[k].df.height,
          column_count |-> Len(d[k].df.columns),
          column_names |-> FirstFive(d[k].df.columns) ]]

InfoInit ==
    /\ info_tables \in {o.tables : o \in {x \in ParseOutcomes : x.exc = NoExc}}
    /\ info_pc = "run"
    /\ info_report = <<>>
    /\ info_exit = 0
    /\ FuzzyIdle
    /\ SegIdle
    /\ ProcIdle
    /\ BatchIdle
    /\ UploadIdle
    /\ CleanIdle
    /\ TokenIdle
    /\ EncIdle

\* lines 393-423: the try block, and the except clause that exits with code 1
InfoRun ==
    /\ info_pc = "run"
    /\ IF ImportFromEtl("parse_multi_table_csv") = NoExc
       THEN info_report' = TableReport(info_tables) /\ info_exit' = 0
       ELSE info_report' = <<>> /\ info_exit' = 1
    /\ info_pc' = "done"
    /\ UNCHANGED info_tables
    /\ UNCHANGED <<fvars, svars, pvars, bvars, uvars, cvars, tvars, evars>>

InfoNext == InfoRun

SpecInfo == InfoInit /\ [][InfoNext]_vars

-----------------------------------------------------------------------------
(* The text path: lines, delimiter, grid (etl_douyin.py 192-288) *)

\* line 194: f.readlines() cut at the newlines, each line stripped, the blank
\* ones dropped
RECURSIVE StrippedNonBlank(_)
StrippedNonBlank(raw) ==
    IF raw = <<>> THEN <<>>
    ELSE IF Strip(Head(raw)) = <<>> THEN StrippedNonBlank(Tail(raw))
    ELSE <<Strip(Head(raw))>> \o StrippedNonBlank(Tail(raw))

ReadLines(text) == StrippedNonBlank(Split(text, "\n"))

\* line 229
separators == <<"\t", ",", ";", "|">>

\* line 235: lines[:10]
FirstTen(ls) == SubSeq(ls, 1, IF Len(ls) < 10 THEN Len(ls) ELSE 10)

\* line 239: len([p for p in parts if p.strip()])
NonEmptyParts(parts) == Cardinality({k \in 1..Len(parts) : Strip(parts[k]) # <<>>})

\* lines 236-242: sum(scores) for one separator, as far as it is an integer: a
\* line's score, len(parts) * (non_empty_parts / len(parts)), is in exact
\* arithmetic the number of its non-blank parts
RECURSIVE ScoreSum(_, _)
ScoreSum(ls, sep) ==
    IF ls = <<>> THEN 0
    ELSE (IF Contains(Head(ls), sep) THEN NonEmptyParts(Split(Head(ls), sep)) ELSE 0)
            + ScoreSum(Tail(ls), sep)

\* len(scores) for one separator
ScoreCount(ls, sep) == Cardinality({k \in 1..Len(ls) : Contains(ls[k], sep)})

\* line 241 in IEEE doubles: the sign of n * (k / n) - k for n <= 25 parts of
\* which k are non-blank (22 * (15 / 22) is 14.999999999999998, 25 * (7 / 25)
\* is 7.000000000000001)
FloatProductSign(n, k) ==
    CASE (n = 22 /\ k = 15) \/ (n = 23 /\ k = 13) -> -1
      [] (n = 25 /\ k = 7) \/ (n = 25 /\ k = 14) -> 1
      [] OTHER -> 0

\* the one line among ls that contains sep
OnlyLineWith(ls, sep) == ls[CHOOSE k \in 1..Len(ls) : Contains(ls[k], sep)]

\* the sign of separator_scores[sep] minus its exact value, for a separator
\* scored on one line (with several scored lines the sum is exact as long as
\* every product is, which is the case of every file of the model)
ScoreSign(ls, sep) ==
    IF ScoreCount(ls, sep) = 1
    THEN FloatProductSign(Len(Split(OnlyLineWith(ls, sep), sep)),
                          NonEmptyParts(Split(OnlyLineWith(ls, sep), sep)))
    ELSE 0

\* lines 244-245: the keys of separator_scores, as positions in `separators`
Scored(ls) == {k \in 1..Len(separators) : ScoreCount(ls, separators[k]) > 0}

\* separator_scores[a] > separator_scores[b], both being keys: the averages
\* compared, and the rounding of the products where the averages are equal
ScoresHigher(ls, a, b) ==
    \/ ScoreSum(ls, a) * ScoreCount(ls, b) > ScoreSum(ls, b) * ScoreCount(ls, a)
    \/ /\ ScoreSum(ls, a) * ScoreCount(ls, b) = ScoreSum(ls, b) * ScoreCount(ls, a)
       /\ ScoreSign(ls, a) > ScoreSign(ls, b)

\* max() that keeps the last key among those of the highest score
RECURSIVE LastMaxKey(_, _, _)
LastMaxKey(ls, best, k) ==
    IF k > Len(separators) THEN best
    ELSE IF k \in Scored(ls) /\ (best = 0 \/ ~ScoresHigher(ls, separators[best], separators[k]))
         THEN LastMaxKey(ls, k, k + 1)
    ELSE LastMaxKey(ls, best, k + 1)

BestPositionTiesLater(ls) == LastMaxKey(ls, 0, 1)

\* line 251: max(keys, key=...) walks the keys in insertion order and replaces
\* the best so far only by a key of a higher score; best = 0 before the first key
RECURSIVE MaxKey(_, _, _)
MaxKey(ls, best, k) ==
    IF k > Len(separators) THEN best
    ELSE IF k \in Scored(ls) /\ (best = 0 \/ ScoresHigher(ls, separators[k], separators[best]))
         THEN MaxKey(ls, k, k + 1)
    ELSE MaxKey(ls, best, k + 1)

BestPosition(ls) == MaxKey(ls, 0, 1)

\* _detect_separator_from_lines (lines 225-252)
detect_separator_from_lines(ls) ==
    IF Scored(FirstTen(ls)) = {} THEN "\t" ELSE separators[BestPosition(FirstTen(ls))]

\* lines 260-264
RECURSIVE max_columns(_, _)
max_columns(ls, sep) ==
    IF ls = <<>> THEN 0
    ELSE IF Contains(Head(ls), sep) /\ Len(Split(Head(ls), sep)) > max_columns(Tail(ls), sep)
         THEN Len(Split(Head(ls), sep))
    ELSE max_columns(Tail(ls), sep)

\* a row left as short as it is
NoPad(row, n) == row

\* lines 272-273 and 278-279: while len(row) < n: row.append('')
PadTo(row, n) == row \o [k \in 1..(n - Len(row)) |-> <<>>]

\* parts[:n]
Prefix(parts, n) == SubSeq(parts, 1, IF Len(parts) < n THEN Len(parts) ELSE n)

\* lines 269-280: the row of one line
parsed_row(line, sep, n) ==
    IF Contains(line, sep)
    THEN [k \in 1..Len(Prefix(PadTo(Split(line, sep), n), n)) |->
              Strip(Prefix(PadTo(Split(line, sep), n), n)[k])]
    ELSE PadTo(<<Strip(line)>>, n)

\* lines 267-280
parsed_rows(ls, sep, n) == [k \in 1..Len(ls) |-> parsed_row(ls[k], sep, n)]

\* the longest row
RECURSIVE Widest(_)
Widest(rows) ==
    IF rows = <<>> THEN 0
    ELSE IF Len(Head(rows)) > Widest(Tail(rows)) THEN Len(Head(rows)) ELSE Widest(Tail(rows))

\* pd.DataFrame(rows, columns=[col_0 .. col_{n-1}]) (line 285), as
\* [exc, columns, rows]: ValueError when the longest row has not n cells; a
\* shorter row is filled up with None
DataFrame(rows, n) ==
    IF Widest(rows) # n
    THEN [exc |-> ValueError, columns |-> 0, rows |-> <<>>]
    ELSE [exc |-> NoExc, columns |-> n,
          rows |-> [k \in 1..Len(rows) |->
                       rows[k] \o [j \in 1..(n - Len(rows[k])) |-> None]]]

\* _parse_multiformat_lines (lines 255-288); pd.DataFrame() when there is no line
parse_multiformat_lines(ls, sep) ==
    IF ls = <<>> THEN [exc |-> NoExc, columns |-> 0, rows |-> <<>>]
    ELSE DataFrame(parsed_rows(ls, sep, max_columns(ls, sep)), max_columns(ls, sep))

\* s.join(parts)
RECURSIVE Join(_, _)
Join(parts, sep) ==
    IF parts = <<>> THEN <<>>
    ELSE IF Len(parts) = 1 THEN Head(parts)
    ELSE Head(parts) \o <<sep>> \o Join(Tail(parts), sep)

\* a grid written as text: a missing cell as nothing, the cells of a row
\* joined by the delimiter, one row per line
WrittenBack(df, sep) ==
    Join([k \in 1..Len(df.rows) |->
             Join([j \in 1..Len(df.rows[k]) |->
                      IF df.rows[k][j] = None THEN <<>> ELSE df.rows[k][j]], sep)],
         "\n")

\* the characters of a file: a letter, a blank, the four delimiters, the newline
TextChars == {"a", " ", "\t", ",", ";", "|", "\n"}

\* n times the text t, each followed by the text sep
RECURSIVE Repeated(_, _, _)
Repeated(t, sep, n) == IF n = 0 THEN <<>> ELSE t \o sep \o Repeated(t, sep, n - 1)

\* a line of 22 tab-separated fields of which 15 are not blank (the first 14
\* and the last), then a line of 15 comma-separated fields, none blank
WideText ==
    Repeated(<<"a">>, <<"\t">>, 14) \o Repeated(<<>>, <<"\t">>, 7) \o <<"a", "\n">>
        \o Repeated(<<"a">>, <<",">>, 14) \o <<"a">>

\* ten lines without a delimiter, then a line with a comma, a line with a pipe
LongText == Repeated(<<"a">>, <<"\n">>, 10) \o <<"a", ",", "a", "\n", "a", "|", "a">>

\* every text of at most MaxText characters, and the two longer ones
Texts == UNION {[1..m -> TextChars] : m \in 0..MaxText} \cup {WideText, LongText}

NoFrame == [exc |-> "", columns |-> 0, rows |-> <<>>]

TokenInit ==
    /\ tk_text \in Texts
    /\ tk_pc = "read"
    /\ lines = <<>>
    /\ separator = ""
    /\ df_text = NoFrame
    /\ df_first = NoFrame
    /\ FuzzyIdle
    /\ SegIdle
    /\ ProcIdle
    /\ BatchIdle
    /\ UploadIdle
    /\ CleanIdle
    /\ InfoIdle
    /\ EncIdle

\* lines 193-194; the second pass keeps the delimiter of the first
TokenRead ==
    /\ tk_pc = "read"
    /\ lines' = ReadLines(tk_text)
    /\ tk_pc' = IF df_first = NoFrame THEN "detect" ELSE "parse"
    /\ UNCHANGED <<tk_text, separator, df_text, df_first>>
    /\ UNCHANGED <<fvars, svars, pvars, bvars, uvars, cvars, ivars, evars>>

\* line 197
TokenDetect ==
    /\ tk_pc = "detect"
    /\ separator' = detect_separator_from_lines(lines)
    /\ tk_pc' = "parse"
    /\ UNCHANGED <<tk_text, lines, df_text, df_first>>
    /\ UNCHANGED <<fvars, svars, pvars, bvars, uvars, cvars, ivars, evars>>

\* line 201; an exception leaves _parse_csv_with_pandas (lines 220-222)
TokenParse ==
    /\ tk_pc = "parse"
    /\ \E df \in {parse_multiformat_lines(lines, separator)} :
           /\ df_text' = df
           /\ tk_pc' = IF df.exc # NoExc THEN "raised"
                       ELSE IF df_first = NoFrame THEN "parsed" ELSE "reparsed"
    /\ UNCHANGED <<tk_text, lines, separator, df_first>>
    /\ UNCHANGED <<fvars, svars, pvars, bvars, uvars, cvars, ivars, evars>>

\* the grid is written out as a file with the same delimiter and read again
TokenWriteBack ==
    /\ tk_pc = "parsed"
    /\ df_first' = df_text
    /\ tk_text' = WrittenBack(df_text, separator)
    /\ tk_pc' = "read"
    /\ UNCHANGED <<lines, separator, df_text>>
    /\ UNCHANGED <<fvars, svars, pvars, bvars, uvars, cvars, ivars, evars>>

TokenNext == TokenRead \/ TokenDetect \/ TokenParse \/ TokenWriteBack

SpecToken == TokenInit /\ [][TokenNext]_vars

-----------------------------------------------------------------------------
(* Properties of the text path *)

\* the column count of a line: its parts, one for a line without the delimiter
ColumnCount(line, sep) == Len(Split(line, sep))

\* the largest column count over the lines
MaxColumnCount(ls, sep) ==
    CHOOSE n \in {ColumnCount(ls[k], sep) : k \in 1..Len(ls)} :
        \A k \in 1..Len(ls) : ColumnCount(ls[k], sep) <= n

\* the first pass over a file that has lines has run
FirstPassOver == tk_pc \in {"parsed", "raised"} /\ df_first = NoFrame /\ lines # <<>>

\* C18: for every list of non-blank lines and every delimiter the grid built by
\* _parse_multiformat_lines is rectangular: every row has as many cells as the
\* largest column count over the lines, a line without the delimiter counting
\* one column and being padded with empty cells; this includes the lists in
\* which no line contains the delimiter.
C18_GridIsRectangular ==
    FirstPassOver =>
        /\ df_text.exc = NoExc
        /\ Len(df_text.rows) = Len(lines)
        /\ df_text.columns = MaxColumnCount(lines, separator)
        /\ \A k \in 1..Len(df_text.rows) :
               Len(df_text.rows[k]) = MaxColumnCount(lines, separator)

\* C19: tokenization is idempotent: the rows of a grid the tokenizer produced,
\* each written back as a line joined by the same delimiter, stripped as the
\* text path strips lines and tokenized again, give the identical grid, for
\* each of the delimiters tab, comma, semicolon and pipe and for rows whose
\* leading or trailing cells are empty.
C19_TokenizeIsIdempotent ==
    (df_first # NoFrame /\ tk_pc \in {"reparsed", "raised"}) => df_text = df_first

\* a grid with a row whose first cell is empty and a row whose last cell is
\* empty went through the second pass
C19_Witness ==
    /\ tk_pc = "reparsed"
    /\ \E k \in 1..Len(df_first.rows) : df_first.rows[k][1] = <<>>
    /\ \E k \in 1..Len(df_first.rows) : df_first.rows[k][df_first.columns] = <<>>

\* the delimiters that occur in the first 10 lines
Occurring == { d \in Range(separators) : ScoreCount(FirstTen(lines), d) > 0 }

\* position of a delimiter in the order tab, comma, semicolon, pipe
OrderOf(d) == CHOOSE k \in 1..4 : <<"\t", ",", ";", "|">>[k] = d

\* the average score of a, as computed, is higher than that of b
AverageAbove(a, b) == ScoresHigher(FirstTen(lines), a, b)

\* the delimiter has been inferred from the lines of the file
Detected == df_first = NoFrame /\ tk_pc \in {"parse", "parsed", "raised"}

\* C26: _detect_separator_from_lines returns a delimiter whose average
\* per-line score (field count times fraction of non-blank fields, averaged
\* over the lines among the first 10 that contain it) is maximal among tab,
\* comma, semicolon and pipe, ties going to the earlier delimiter in that
\* order; it returns tab when none of the four occurs in the first 10 lines.
C26_BestAverageScore ==
    Detected =>
        IF Occurring = {} THEN separator = "\t"
        ELSE /\ separator \in Occurring
             /\ \A d \in Occurring \ {separator} :
                    /\ ~AverageAbove(d, separator)
                    /\ OrderOf(d) < OrderOf(separator) => AverageAbove(separator, d)

\* two delimiters occur with the same average score and the earlier one is returned
C26_Witness ==
    /\ Detected
    /\ \E d \in Occurring \ {separator} :
           /\ ~AverageAbove(d, separator)
           /\ ~AverageAbove(separator, d)
           /\ OrderOf(separator) < OrderOf(d)

-----------------------------------------------------------------------------
(* detect_encoding (etl_douyin.py 25-79) *)

\* A file is [n, bad, kw, chunk]: its number of lines, per codec the first line
\* holding a byte sequence the codec rejects (0: none), the first line that
\* holds one of the keywords of line 66 (0: none), and the number of lines one
\* buffered read of the text layer decodes at once (lines are read through
\* io.TextIOWrapper, which decodes whole chunks of bytes, not single lines).

\* line 61: range(10)
TenLines == 10

Codecs == {"utf_8", "gbk", "gb2312", "gb18030", "cp1252"}

\* the codec behind an encoding name; utf-8-sig decodes what utf-8 decodes
CodecOf(encoding) ==
    CASE encoding \in {"utf-8-sig", "utf-8"} -> "utf_8"
      [] encoding = "gbk" -> "gbk"
      [] encoding \in {"gb2312", "GB2312"} -> "gb2312"
      [] encoding = "gb18030" -> "gb18030"
      [] encoding = "Windows-1252" -> "cp1252"

\* the last line of the chunk that holds line k
ChunkEnd(file, k) ==
    IF ((k - 1) \div file.chunk + 1) * file.chunk < file.n
    THEN ((k - 1) \div file.chunk + 1) * file.chunk
    ELSE file.n

\* line 66: any(keyword in line for keyword in [...])
HasKeyword(file, k) == file.kw = k

\* lines 59-71, k being the number of the line readline() is about to fetch:
\* "error" when the chunk decoded for it holds a rejected byte sequence,
\* "return" at a keyword line, at the end of the file or after ten lines
RECURSIVE ReadLoop(_, _, _)
ReadLoop(file, codec, k) ==
    IF k > TenLines \/ k > file.n THEN "return"
    ELSE IF file.bad[codec] # 0 /\ file.bad[codec] <= ChunkEnd(file, k) THEN "error"
    ELSE IF HasKeyword(file, k) THEN "return"
    ELSE ReadLoop(file, codec, k + 1)

\* list(dict.fromkeys(...)): the first occurrence of each entry, in order
RECURSIVE FromKeys(_, _)
FromKeys(names, seen) ==
    IF names = <<>> THEN <<>>
    ELSE IF Head(names) \in seen THEN FromKeys(Tail(names), seen)
    ELSE <<Head(names)>> \o FromKeys(Tail(names), seen \cup {Head(names)})

\* lines 44-54; filter(None, ...) drops a detection of None
EncodingCandidates(detected) ==
    FromKeys(<<"utf-8-sig", "utf-8", "gbk", "gb2312", "gb18030">>
                 \o (IF detected = "None" THEN <<>> ELSE <<detected>>), {})

\* what chardet can report: nothing, or the name of an encoding
Detections == {"None", "utf-8", "GB2312", "Windows-1252"}

\* the lines of which the model distinguishes the rejected byte sequences
MarkedLines(n) == {0} \cup ({1, 2, TenLines, TenLines + 1} \cap 1..n)

\* b decodes at least as far as a
DecodesAsFar(b, a) == b = 0 \/ (a # 0 /\ b >= a)

\* the files of the model; GBK decodes what GB2312 decodes, GB18030 what GBK decodes
EncFiles ==
    { [n |-> n, bad |-> bad, kw |-> kw, chunk |-> chunk] :
        n \in {0, 1, MaxFileLines},
        bad \in [Codecs -> {0, 1, 2, TenLines, TenLines + 1}],
        kw \in {0, 1, 2},
        chunk \in {1, 4, MaxFileLines} }

EncInit ==
    /\ enc_file \in { f \in EncFiles :
                        /\ \A c \in Codecs : f.bad[c] \in MarkedLines(f.n)
                        /\ f.kw <= f.n
                        /\ DecodesAsFar(f.bad["gbk"], f.bad["gb2312"])
                        /\ DecodesAsFar(f.bad["gb18030"], f.bad["gbk"]) }
    /\ detected_encoding \in Detections
    /\ encoding_candidates = <<>>
    /\ enc_i = 0
    /\ enc_pc = "detect"
    /\ enc_result = ""
    /\ FuzzyIdle
    /\ SegIdle
    /\ ProcIdle
    /\ BatchIdle
    /\ UploadIdle
    /\ CleanIdle
    /\ InfoIdle
    /\ TokenIdle

\* lines 44-54
EncCandidates ==
    /\ enc_pc = "detect"
    /\ encoding_candidates' = EncodingCandidates(detected_encoding)
    /\ enc_pc' = "try"
    /\ UNCHANGED <<enc_file, detected_encoding, enc_i, enc_result>>
    /\ UNCHANGED <<fvars, svars, pvars, bvars, uvars, cvars, ivars, tvars>>

\* lines 57-75: one candidate; a decoding error moves on to the next
EncTry ==
    /\ enc_pc = "try"
    /\ enc_i < Len(encoding_candidates)
    /\ IF ReadLoop(enc_file, CodecOf(encoding_candidates[enc_i + 1]), 1) = "return"
       THEN enc_result' = encoding_candidates[enc_i + 1] /\ enc_pc' = "done"
       ELSE UNCHANGED <<enc_result, enc_pc>>
    /\ enc_i' = enc_i + 1
    /\ UNCHANGED <<enc_file, detected_encoding, encoding_candidates>>
    /\ UNCHANGED <<fvars, svars, pvars, bvars, uvars, cvars, ivars, tvars>>

\* lines 77-79
EncDefault ==
    /\ enc_pc = "try"
    /\ enc_i = Len(encoding_candidates)
    /\ enc_result' = "utf-8"
    /\ enc_pc' = "done"
    /\ UNCHANGED <<enc_file, detected_encoding, encoding_candidates, enc_i>>
    /\ UNCHANGED <<fvars, svars, pvars, bvars, uvars, cvars, ivars, tvars>>

EncNext == EncCandidates \/ EncTry \/ EncDefault

SpecEnc == EncInit /\ [][EncNext]_vars

-----------------------------------------------------------------------------
(* Properties of detect_encoding *)

\* the candidate decodes the first 10 lines of the file without error
DecodesTenLines(file, encoding) ==
    file.bad[CodecOf(encoding)] = 0 \/ file.bad[CodecOf(encoding)] > TenLines

\* the candidates of the claim, in its order, duplicates removed
ClaimedOrder ==
    FromKeys(<<"utf-8-sig", "utf-8", "gbk", "gb2312", "gb18030">>
                 \o (IF detected_encoding = "None" THEN <<>> ELSE <<detected_encoding>>), {})

\* C25: detect_encoding tries utf-8-sig, utf-8, gbk, gb2312, gb18030 and then
\* the statistically detected encoding, duplicates removed, and returns the
\* first one that decodes the first 10 lines without error, whether or not
\* those lines hold a domain keyword; when no candidate decodes it returns
\* utf-8 and does not raise.
C25_FirstDecodingCandidate ==
    enc_pc = "done" =>
        IF \E k \in 1..Len(ClaimedOrder) : DecodesTenLines(enc_file, ClaimedOrder[k])
        THEN \E k \in 1..Len(ClaimedOrder) :
                 /\ enc_result = ClaimedOrder[k]
                 /\ DecodesTenLines(enc_file, ClaimedOrder[k])
                 /\ \A j \in 1..(k - 1) : ~DecodesTenLines(enc_file, ClaimedOrder[j])
        ELSE enc_result = "utf-8"

-----------------------------------------------------------------------------
(* Properties of parse_fuzzy_numeric_range *)

\* the decimal m * 10^e
Dec(m, e) == Norm(m, e)

Cell_7_5w_10w == <<"7", ".", "5", "w", "~", "1", "0", "w">>
Cell_10w_5w   == <<"1", "0", "w", "~", "5", "w">>
Cell_1w_2_5w  == <<"1", "w", "~", "2", ".", "5", "w">>
Cell_NA       == <<"N", "/", "A">>
Cell_5_x      == <<"5", "~", "x">>

\* the cells the loop has consumed so far
Consumed == 1..fz_i

\* the lists are as long as the number of cells consumed
ListsInStep ==
    /\ Len(min_values) = fz_i
    /\ Len(max_values) = fz_i
    /\ Len(avg_values) = fz_i

OutTriple(i) == <<min_values[i], max_values[i], avg_values[i]>>

\* the two parts of a cell around its single separator sep, trimmed
PartsAround(v, sep) == Split(CleanStr(v), sep)

\* a cell "L<sep>R" whose two parts both parse as bounds
IsRangeOver(v, sep) ==
    /\ v # None
    /\ v # <<>>
    /\ Len(PartsAround(v, sep)) = 2
    /\ ParseBound(Strip(PartsAround(v, sep)[1])).exc = NoExc
    /\ ParseBound(Strip(PartsAround(v, sep)[2])).exc = NoExc

LeftVal(v, sep)  == ParseBound(Strip(PartsAround(v, sep)[1])).val
RightVal(v, sep) == ParseBound(Strip(PartsAround(v, sep)[2])).val

\* min = value(L), max = value(R), avg = (min + max) / 2
RangeLaw(v, sep) ==
    <<LeftVal(v, sep), RightVal(v, sep), Half(Add(LeftVal(v, sep), RightVal(v, sep)))>>

\* C1: for every cell L~R whose two parts both parse, min = value(L),
\* max = value(R) in left-to-right order (not sorted) and avg = (min+max)/2;
\* "7.5w~10w" gives 75000 / 100000 / 87500 and "10w~5w" gives min 100000 > max 50000.
C1_RangeLeftToRight ==
    fz_pc # "raised" =>
        /\ ListsInStep
        /\ \A i \in Consumed :
            /\ IsRangeOver(series[i], "~") => OutTriple(i) = RangeLaw(series[i], "~")
            /\ series[i] = Cell_7_5w_10w =>
                   OutTriple(i) = <<Dec(75000, 0), Dec(100000, 0), Dec(87500, 0)>>
            /\ series[i] = Cell_10w_5w =>
                   OutTriple(i) = <<Dec(100000, 0), Dec(50000, 0), Dec(75000, 0)>>

C1_Witness ==
    /\ fz_pc = "done"
    /\ \E i \in 1..Len(series) :
        /\ series[i] = Cell_10w_5w
        /\ fz_result.min[i] = Dec(100000, 0)
        /\ fz_result.max[i] = Dec(50000, 0)

\* C2: the three outputs have as many entries as the input column, and at every
\* index either all three of min/max/avg are null or none is, also for a range
\* of which exactly one bound fails to parse.
C2_NoPartialNull ==
    /\ fz_pc # "raised" => ListsInStep
    /\ \A i \in 1..Len(min_values) :
        i <= Len(max_values) /\ i <= Len(avg_values) =>
            /\ (min_values[i] = Null) <=> (max_values[i] = Null)
            /\ (min_values[i] = Null) <=> (avg_values[i] = Null)
    /\ fz_pc = "done" =>
        /\ Len(fz_result.min) = Len(series)
        /\ Len(fz_result.max) = Len(series)
        /\ Len(fz_result.avg) = Len(series)

C2_Witness ==
    /\ fz_pc = "done"
    /\ \E i \in 1..Len(series) :
        /\ series[i] = Cell_5_x
        /\ <<fz_result.min[i], fz_result.max[i], fz_result.avg[i]>> = <<Null, Null, Null>>

\* a cell "L-R" with no other separator
IsDashRange(v) ==
    /\ v # None
    /\ ~Contains(v, "~")
    /\ IsRangeOver(v, "-")

\* C3: both range separators are recognised: for every pair of parseable bounds
\* L and R the cell "L-R" yields the min/max/avg that "L~R" yields.
C3_DashLikeTilde ==
    fz_pc = "done" =>
        \A i \in 1..Len(series) :
            IsDashRange(series[i]) =>
                <<fz_result.min[i], fz_result.max[i], fz_result.avg[i]>> = RangeLaw(series[i], "-")

\* the outcome of the function on the one-cell column <<v>>
Alone(v) ==
    LoopBody([min |-> <<>>, max |-> <<>>, avg |-> <<>>], v)

AloneTriple(v) == <<Alone(v).L.min[1], Alone(v).L.max[1], Alone(v).L.avg[1]>>

\* the cells the claim names as failing every parse rule
FailingCells == {Cell_NA, <<"w">>, <<"1", "~", "2", "~", "3">>, <<"~", "5">>}

\* C4: a cell that fails all parse rules yields min = max = avg = null for that
\* cell only: the function never raises, and every other cell of the column
\* gets the value it would have on its own.
C4_FailureStaysLocal ==
    /\ fz_pc # "raised"
    /\ ListsInStep
    /\ \A i \in Consumed :
        /\ series[i] \in FailingCells => OutTriple(i) = <<Null, Null, Null>>
        /\ OutTriple(i) = AloneTriple(series[i])

C4_Witness ==
    /\ fz_pc = "done"
    /\ Len(series) = 2
    /\ series[1] \in FailingCells
    /\ series[2] = Cell_7_5w_10w
    /\ fz_result.min = <<Null, Dec(75000, 0)>>
    /\ fz_result.avg = <<Null, Dec(87500, 0)>>

\* a cell with a single value: not null, and no '~' once cleaned
IsSingle(v) == v # None /\ ~Contains(CleanStr(v), "~")

\* a signed decimal literal: an optional '-', then digits with at most one point
SignedLiteral(s) == DecimalBody(Unsigned(s))

\* a number followed by the ten-thousand marker
MarkedNumber(s) ==
    /\ s # <<>>
    /\ s[Len(s)] = "w"
    /\ FloatOk(SubSeq(s, 1, Len(s) - 1))

\* what the number-parsing rule gives for the cleaned text s of a single value
SingleLaw(s) ==
    IF SignedLiteral(s) THEN StrippedVal(s)
    ELSE IF MarkedNumber(s) THEN Times10000(FloatVal(SubSeq(s, 1, Len(s) - 1)))
    ELSE Null

\* C13: for a single (non-range) value min = max = avg = the parsed number: a
\* plain "<digits>.<digits>" gives exactly that value, a number followed by the
\* ten-thousand marker (万, w or W) gives the number times 10000, and any other
\* text that is not a valid signed decimal literal gives null.
C13_SingleValueLaw ==
    fz_pc = "done" =>
        \A i \in 1..Len(series) :
            IsSingle(series[i]) =>
                /\ fz_result.min[i] = SingleLaw(CleanStr(series[i]))
                /\ fz_result.max[i] = SingleLaw(CleanStr(series[i]))
                /\ fz_result.avg[i] = SingleLaw(CleanStr(series[i]))

\* the non-empty cells of the column whose three outputs are null
FailedCells ==
    { i \in 1..Len(series) :
        /\ series[i] # None
        /\ series[i] # <<>>
        /\ <<fz_result.min[i], fz_result.max[i], fz_result.avg[i]>> = <<Null, Null, Null>> }

\* C23: for every fuzzy column each non-empty cell whose parse degrades to
\* null/null/null has exactly one warning recorded for it: the number of
\* warnings of the column is the number of its non-empty cells that failed to
\* parse, whether by an exception ("abc~def") or by the literal check ("N/A").
C23_OneWarningPerFailure ==
    fz_pc = "done" => fz_warnings = Cardinality(FailedCells)

-----------------------------------------------------------------------------
(* Properties of _detect_tables_in_sheet *)

\* the rows h_i + 1 .. h_{i+1} - 1 of candidate i (1-based), the last one's
\* running to the end of the grid
SpanOf(i) ==
    { r \in 0..(Len(df_pandas) - 1) :
        /\ r > possible_header_indices[i]
        /\ i < Len(possible_header_indices) => r < possible_header_indices[i + 1] }

\* the rows of a span that are not dropped as blank
KeptOf(i) == {r \in SpanOf(i) : ~AllMissing(df_pandas[r + 1])}

NoBlankRow == \A k \in 1..Len(df_pandas) : ~AllMissing(df_pandas[k]) /\ RowValues(df_pandas[k]) # {}

\* C7: for header candidates h_1 < ... < h_k segmentation yields block i
\* holding exactly the rows h_i+1 .. h_{i+1}-1 (the last to the grid's end), so
\* every row belongs to at most one block and rows before h_1 to none; with
\* candidates at 2 and 9 of a 15-row grid with no blank row it yields exactly
\* two blocks, rows 3-8 and rows 10-14.  Stated for the grids in which some
\* span keeps a row, where the blocks come from the block loop.
C7_BlocksAreTheSpans ==
    (/\ seg_pc = "done"
     /\ \E i \in 1..Len(possible_header_indices) : KeptOf(i) # {}) =>
        /\ \A i \in 1..Len(possible_header_indices) :
               KeptOf(i) # {} => \E k \in 1..Len(tables) : Range(tables[k].rows) = KeptOf(i)
        /\ \A k \in 1..Len(tables) :
               \E i \in 1..Len(possible_header_indices) : Range(tables[k].rows) \subseteq SpanOf(i)
        /\ \A k, h \in 1..Len(tables) :
               k # h => Range(tables[k].rows) \cap Range(tables[h].rows) = {}
        /\ (Len(df_pandas) = 15 /\ possible_header_indices = <<2, 9>> /\ NoBlankRow) =>
               /\ Len(tables) = 2
               /\ {Range(tables[k].rows) : k \in 1..Len(tables)} = {3..8, 10..14}

\* C8: every block returned (normal path and single-block fallback) has
\* pairwise distinct column names, as many as the grid is wide; repeated header
\* cells get an occurrence-counter suffix, also when a generated name equals
\* another header cell.
C8_UniqueColumns ==
    seg_pc = "done" =>
        \A k \in 1..Len(tables) :
            /\ Len(tables[k].columns) = Len(df_pandas[1])
            /\ \A a, b \in 1..Len(tables[k].columns) :
                   a # b => tables[k].columns[a] # tables[k].columns[b]

\* the 0-based index of the row of the grid that is the given header
IndexOfRow(row) == CHOOSE r \in 0..(Len(df_pandas) - 1) : df_pandas[r + 1] = row

\* the data rows of block B: those after its header, up to block A's header
\* when A follows
RowsOfB ==
    { r \in 0..(Len(df_pandas) - 1) :
        /\ r > IndexOfRow(ThreeKeywordHeaderRow)
        /\ IndexOfRow(PlainHeaderRow) > IndexOfRow(ThreeKeywordHeaderRow) =>
               r < IndexOfRow(PlainHeaderRow) }

\* C16: for a file of two blocks where block A's header has 0 vocabulary
\* keywords and block B's header has 3, exactly one table block results, the
\* one for B, and it holds only B's rows.
C16_OnlyBlockB ==
    (seg_pc = "done" /\ df_pandas \in TwoBlockGrids) =>
        /\ Len(tables) = 1
        /\ Range(tables[1].rows) = RowsOfB

\* the number of non-blank cells of a row
NonBlankCells(row) == Cardinality({k \in 1..Len(row) : NonBlank(row[k])})

\* the header rule with non_empty the count of non-blank cells
CandidateByCellCount(row) ==
    /\ \/ keyword_matches(row) >= 2 /\ NonBlankCells(row) >= 4
       \/ keyword_matches(row) >= 1 /\ NonBlankCells(row) >= 5
       \/ Cardinality(CORE_COMBO \cap RowValues(row)) >= 2 /\ NonBlankCells(row) >= 3
    /\ 10 * NonBlankCells(row) > 4 * Len(row)

\* C20: a row is marked a header candidate exactly when (keyword_matches >= 2
\* and non_empty >= 4) or (keyword_matches >= 1 and non_empty >= 5) or
\* (core_matches >= 2 and non_empty >= 3) holds and non_empty / row_width > 0.4,
\* keyword_matches and core_matches counting distinct cell values and non_empty
\* counting the non-blank cells of the row, also when one non-blank value
\* occurs in several cells. Checked on the grids in which the rule marks a row,
\* so that the relaxed second pass is not what is compared.
C20_HeaderCandidateRule ==
    (seg_pc # "scan" /\ \E k \in 1..Len(df_pandas) : CandidateByCellCount(df_pandas[k])) =>
        \A idx \in 0..(Len(df_pandas) - 1) :
            idx \in Range(possible_header_indices) <=> CandidateByCellCount(df_pandas[idx + 1])

\* the relaxed rule with non_empty the count of non-blank cells
RelaxedByCellCount(row) == keyword_matches(row) >= 1 /\ NonBlankCells(row) >= 3

\* neither rule marks a row, whichever way non_empty is counted
NoCandidateAtAll ==
    /\ Prescan(df_pandas) = <<>>
    /\ \A k \in 1..Len(df_pandas) :
           ~CandidateByCellCount(df_pandas[k]) /\ ~RelaxedByCellCount(df_pandas[k])

\* the 0-based index of the first row with at least 3 non-blank cells
FirstWideRow ==
    CHOOSE idx \in 0..(Len(df_pandas) - 1) :
        /\ NonBlankCells(df_pandas[idx + 1]) >= 3
        /\ \A h \in 0..(idx - 1) : NonBlankCells(df_pandas[h + 1]) < 3

\* C21: when neither the strict nor the relaxed rule finds a header candidate
\* and the grid has a row with at least 3 non-blank cells, segmentation
\* returns exactly one block, whose header is the first such row and whose
\* data rows are all the rows after it. Checked on the grids in which no row
\* after that header is blank, so that the block has data rows.
C21_ImplicitHeaderFallback ==
    ( /\ seg_pc = "done"
      /\ NoCandidateAtAll
      /\ \E k \in 1..Len(df_pandas) : NonBlankCells(df_pandas[k]) >= 3
      /\ FirstWideRow + 1 < Len(df_pandas)
      /\ \A r \in (FirstWideRow + 2)..Len(df_pandas) : RowValues(df_pandas[r]) # {} ) =>
        /\ Len(tables) = 1
        /\ tables[1].columns = HeaderNames(df_pandas[FirstWideRow + 1])
        /\ Range(tables[1].rows) = (FirstWideRow + 1)..(Len(df_pandas) - 1)

\* a fully blank row: every cell is an empty string or missing
FullyBlank(row) == \A k \in 1..Len(row) : row[k] \in {"", NaN}

\* C22: no block returned by segmentation contains a fully blank data row (all
\* cells empty strings or missing) and no returned block has zero data rows,
\* for grids of the text tokenizer, whose blank cells are empty strings, as
\* for spreadsheet grids, whose blank cells are missing values.
C22_NoBlankRowInBlocks ==
    seg_pc = "done" =>
        \A t \in 1..Len(tables) :
            /\ tables[t].rows # <<>>
            /\ \A k \in 1..Len(tables[t].rows) :
                   ~FullyBlank(df_pandas[tables[t].rows[k] + 1])

\* the header row of a returned table: the row the single-block fallback took,
\* or the last header candidate above the table's first data row
HeaderIndexOf(t) ==
    IF t.name = SheetName \o "_shujubiao"
    THEN CHOOSE idx \in 0..(Len(df_pandas) - 1) :
             /\ NonBlankCount(df_pandas[idx + 1]) >= 3
             /\ \A h \in 0..(idx - 1) : NonBlankCount(df_pandas[h + 1]) < 3
    ELSE CHOOSE h \in Range(possible_header_indices) :
             /\ h < t.rows[1]
             /\ \A h2 \in Range(possible_header_indices) : h2 < t.rows[1] => h2 <= h

\* the title rows among the 3 rows immediately above row h
TitlesAbove(h) ==
    { j \in 0..(Len(df_pandas) - 1) : j < h /\ h - j <= 3 /\ IsTitleRow(df_pandas[j + 1]) }

\* the default names: 数据表_<ordinal>
DefaultNames == { "shujubiao_" \o ToString(n) : n \in 1..Len(df_pandas) }

\* C24: a block's name is the trimmed text of a non-blank row within the 3 rows
\* immediately above its header row, never of a row farther away, that
\* contains a table-title keyword or one of the markers 榜, 库; when there is no
\* such row the name is the default name carrying the block's ordinal.
C24_NameFromTitleAbove ==
    seg_pc = "done" =>
        \A t \in 1..Len(tables) :
            IF TitlesAbove(HeaderIndexOf(tables[t])) # {}
            THEN \E j \in TitlesAbove(HeaderIndexOf(tables[t])) :
                     tables[t].name = TitleCandidate(df_pandas[j + 1])
            ELSE tables[t].name \in DefaultNames

\* the header candidates (by position in the list) whose span keeps a row
NonEmptyBlocks == {i \in 1..Len(possible_header_indices) : KeptOf(i) # {}}

\* the name the block of candidate i is stored under
NameOfBlock(i) == TableName(df_pandas, i - 1, possible_header_indices[i])

\* C28: segmentation loses no block: as many tables are returned as there are
\* header candidates whose block keeps at least one data row, and two distinct
\* non-empty blocks never get the same table name, so neither overwrites the
\* other.  Stated for the grids in which some span keeps a row.
C28_NoBlockLost ==
    (seg_pc = "done" /\ NonEmptyBlocks # {}) =>
        /\ Len(tables) = Cardinality(NonEmptyBlocks)
        /\ \A i, j \in NonEmptyBlocks : i # j => NameOfBlock(i) # NameOfBlock(j)

\* the rows whose text names the block of a header candidate with a kept row:
\* the first title row among the rows searched above the header
UsedTitleRows ==
    { j \in 0..(Len(df_pandas) - 1) :
        \E i \in NonEmptyBlocks :
            /\ j \in TitleSearchRows(possible_header_indices[i])
            /\ IsTitleRow(df_pandas[j + 1])
            /\ \A h \in TitleSearchRows(possible_header_indices[i]) :
                   IsTitleRow(df_pandas[h + 1]) => j <= h }

\* C30: a grid row whose text is used as the title (name) of a block is never
\* also a data row of a block returned by the same segmentation.  Stated for
\* the grids in which some span keeps a row.
C30_TitleRowIsNoDataRow ==
    (seg_pc = "done" /\ NonEmptyBlocks # {}) =>
        \A j \in UsedTitleRows : \A t \in 1..Len(tables) : j \notin Range(tables[t].rows)

-----------------------------------------------------------------------------
(* Properties of process_douyin_export *)

\* the value returned is a dataset
ReturnedDataset == proc_pc = "returned" /\ proc_result # PyNone

\* C5: process_douyin_export never yields a silently empty success: the outcome
\* is a raised error, None, or a dataset with at least one row; zero tables
\* raise; a chosen table with no classified column (the projector returns an
\* empty dataset without raising) gives a failure, not an empty dataset.
C5_NoSilentEmptySuccess ==
    /\ ReturnedDataset => proc_result.height >= 1
    /\ (parsed.exc = NoExc /\ parsed.tables = <<>>) => proc_pc \in {"parse", "raised"}
    /\ (proc_pc = "returned" /\ ProcessedColumns(main_df) = <<>>) => proc_result = PyNone

\* a table with rows but no classified column was chosen and the call returned
C5_Witness ==
    /\ proc_pc = "returned"
    /\ main_df.height >= 1
    /\ ProcessedColumns(main_df) = <<>>
    /\ proc_result = PyNone

\* the range and rate columns, whose text is split into _min/_max/_avg
FuzzySources == Range(range_fields) \cup Range(rate_fields)

\* the names clean_common_fields can give to an output column
ClassifiedOutputs ==
    Range(commission_field) \cup Range(numeric_fields) \cup Range(text_fields)
        \cup Range(keep_as_is_fields)
        \cup UNION {Range(MinMaxAvg(f)) : f \in FuzzySources}

\* a classified output name, or what the field mapping renames one to
ClassifiedOrMapped ==
    ClassifiedOutputs \cup {field_mapping[c] : c \in ClassifiedOutputs \cap DOMAIN field_mapping}

\* C6: in every dataset returned by process_douyin_export no fuzzy (range or
\* rate) source column appears under its original name and no column outside
\* the configured classifications appears, on every path through the cleaning
\* step, the one where clean_common_fields raises included.
C6_OnlyProcessedColumns ==
    ReturnedDataset =>
        \A k \in 1..Len(proc_result.columns) :
            /\ proc_result.columns[k] \notin FuzzySources
            /\ proc_result.columns[k] \in ClassifiedOrMapped

\* the positions of the Null-typed columns of a dataset
NullPositions(df) == { k \in 1..Len(df.columns) : df.columns[k] \in df.nulltyped }

\* C17: the rename step of process_douyin_export changes only the names of the
\* columns that are keys of the mapping, each to the mapping's value; every
\* other column keeps its name; the columns' contents, their order and the row
\* count are unchanged. When the mapping file is absent or unreadable, or holds
\* no mapping, the dataset is unchanged, and the step never makes processing fail.
C17_RenameOnlyMappedNames ==
    [][ proc_pc = "map" =>
          /\ proc_pc' = "return"
          /\ Len(cleaned_df'.columns) = Len(cleaned_df.columns)
          /\ cleaned_df'.height = cleaned_df.height
          /\ NullPositions(cleaned_df') = NullPositions(cleaned_df)
          /\ \A k \in 1..Len(cleaned_df.columns) :
                 \/ cleaned_df'.columns[k] = cleaned_df.columns[k]
                 \/ /\ cleaned_df.columns[k] \in DOMAIN field_mapping
                    /\ cleaned_df'.columns[k] = field_mapping[cleaned_df.columns[k]]
          /\ (config_load # "loaded" \/ field_mapping = <<>>) => cleaned_df' = cleaned_df
      ]_vars

\* the mapping was loaded and applied: 商品 is now product_name, next to a
\* column that is no key of the mapping and kept its name
C17_Witness ==
    /\ proc_pc = "return"
    /\ config_load = "loaded"
    /\ field_mapping = ("shangpin" :> "product_name")
    /\ "product_name" \in Range(cleaned_df.columns)
    /\ "yongjinbili" \in Range(cleaned_df.columns)

\* the main table has been chosen
MainChosen == proc_pc \in {"clean", "map", "return", "returned"}

\* the table of the parsed file called n has at least one row
HasRows(n) == \E k \in 1..Len(parsed.tables) : parsed.tables[k].name = n /\ parsed.tables[k].df.height >= 1

\* the position of the chosen table in detection order
MainPosition == CHOOSE k \in 1..Len(parsed.tables) : parsed.tables[k].name = main_table_name

\* table k has rows and, when byKeyword, a name containing one of the keywords
Eligible(k, byKeyword) ==
    /\ parsed.tables[k].df.height >= 1
    /\ byKeyword => parsed.tables[k].name \in NamesWithKeyword

-----------------------------------------------------------------------------
(* Properties of batch and of the upload handlers *)

\* the file's processing fails: it raises or returns None
Fails(k) == input_files[k] \in {"raise", "none"}

\* C9: in batch processing each file is attempted exactly once, a failed file
\* (one whose processing raises or returns None) is recorded as failed and gets
\* no output file written in this run, every other file is processed as it
\* would be alone, and at the end success_count + number of failed files =
\* number of input files.
C9_FailuresAreIsolated ==
    batch_pc = "done" =>
        /\ calls = [k \in 1..Len(input_files) |-> k]
        /\ \A k \in 1..Len(input_files) :
               Fails(k) => k \in Range(failed_files) /\ k \notin written
        /\ \A k \in 1..Len(input_files) :
               ~Fails(k) =>
                   /\ k \notin Range(failed_files)
                   /\ k \in written <=> FileBody("df", output_format) = "written"
        /\ success_count + Len(failed_files) = Len(input_files)

\* C10: for every uploaded file the temporary file spooled to disk for it is
\* deleted on every exit path of that file's processing: a result, None, and
\* an exception at any step after the file was created (while writing the
\* upload into it, or before the engine is called).
C10_TempFileDeleted ==
    \A k \in 1..up_i : k \notin disk

\* the files attempted so far that were counted in success_count: the except
\* clause did not record them
CountedFiles == {k \in 1..batch_i : k \notin Range(failed_files)}

\* C29: in batch processing every file counted in success_count has had its
\* output file written in this run, for every value of the output-format option.
C29_CountedFilesAreWritten ==
    /\ success_count = Cardinality(CountedFiles)
    /\ CountedFiles \subseteq written

-----------------------------------------------------------------------------
(* Properties of clean_common_fields *)

Cell_20pct     == <<"2", "0", "%">>
Cell_10_20pct  == <<"1", "0", "%", "~", "2", "0", "%">>
Cell_padded    == <<" ", "k", "o", "u", "h", "o", "n", "g", " ">>

\* the call returned a table
Cleaned == cl_pc = "done" /\ cl_out.exc = NoExc

HasOut(name) == \E k \in 1..Len(cl_out.columns) : cl_out.columns[k] = name

\* the output column of that name
OutCells(name) == cl_out.data[CHOOSE k \in 1..Len(cl_out.columns) : cl_out.columns[k] = name]

\* the _min/_max/_avg outputs of a fuzzy column at row i
OutMinMaxAvg(name, i) ==
    << OutCells(name \o "_min")[i], OutCells(name \o "_max")[i], OutCells(name \o "_avg")[i] >>

\* x repeated as min, max and avg
Thrice(x) == <<x, x, x>>

\* C11: "20%" gives 0.2 in a percentage-classified column, while the fuzzy
\* parser applied to "20%" in a non-percentage fuzzy column gives the raw
\* parsed value 20 (min = max = avg = 20): the division by 100 happens only for
\* the columns classified as percentage.
C11_PercentOnlyWhereClassified ==
    Cleaned =>
        \A k \in 1..Len(cl_df.columns) : \A i \in 1..cl_df.height :
            /\ (cl_df.columns[k] \in Range(commission_field) /\ cl_df.data[k][i] = Cell_20pct) =>
                   OutCells(cl_df.columns[k])[i] = Dec(2, -1)
            /\ (cl_df.columns[k] \in Range(rate_fields) /\ cl_df.data[k][i] = Cell_20pct) =>
                   OutMinMaxAvg(cl_df.columns[k], i) = Thrice(Dec(2, -1))
            /\ (cl_df.columns[k] \in Range(range_fields) /\ cl_df.data[k][i] = Cell_20pct) =>
                   OutMinMaxAvg(cl_df.columns[k], i) = Thrice(Dec(20, 0))
            /\ cl_df.columns[k] \in Range(range_fields) =>
                   OutMinMaxAvg(cl_df.columns[k], i) = AloneTriple(cl_df.data[k][i])

\* 佣金比例 and 近30天销量 both hold "20%": 0.2 in the one, 20 in the other
C11_Witness ==
    /\ Cleaned
    /\ cl_df.columns = <<"yongjinbili", "jin30tianxiaoliang">>
    /\ cl_df.data = << <<Cell_20pct>>, <<Cell_20pct>> >>
    /\ OutCells("yongjinbili") = <<Dec(2, -1)>>
    /\ OutMinMaxAvg("jin30tianxiaoliang", 1) = Thrice(Dec(20, 0))

\* the percentage columns: 佣金比例, 转化率, 30天转化率
PercentageColumns == Range(commission_field) \cup Range(rate_fields)

\* the outputs of a percentage column at row i: its _min/_max/_avg columns when
\* it has them, else its single output column
PercentOutputs(name, i) ==
    IF HasOut(name \o "_min") THEN OutMinMaxAvg(name, i) ELSE Thrice(OutCells(name)[i])

\* the fuzzy parse of a cell, each output divided by 100
FuzzyOver100(v) ==
    <<Div100(AloneTriple(v)[1]), Div100(AloneTriple(v)[2]), Div100(AloneTriple(v)[3])>>

\* C12: in every percentage column (佣金比例 and the conversion-rate columns
\* alike) each cell's output equals the fuzzy parse of that cell divided by
\* 100, for single values and for ranges: "10%~20%" gives min 0.1, max 0.2,
\* avg 0.15 in each of these columns.
C12_PercentIsFuzzyOver100 ==
    Cleaned =>
        \A k \in 1..Len(cl_df.columns) : \A i \in 1..cl_df.height :
            cl_df.columns[k] \in PercentageColumns =>
                /\ PercentOutputs(cl_df.columns[k], i) = FuzzyOver100(cl_df.data[k][i])
                /\ cl_df.data[k][i] = Cell_10_20pct =>
                       PercentOutputs(cl_df.columns[k], i) = <<Dec(1, -1), Dec(2, -1), Dec(15, -2)>>

\* every column of the table is a text-passthrough column
OnlyTextColumns == \A k \in 1..Len(cl_df.columns) : cl_df.columns[k] \in Range(text_fields)

\* C14: projecting a block that holds only text-passthrough columns returns
\* those columns with every cell verbatim, in the original row order, with the
\* same number of rows.
C14_TextRoundTrip ==
    (cl_pc = "done" /\ OnlyTextColumns) =>
        /\ cl_out.exc = NoExc
        /\ Len(cl_out.columns) = Len(cl_df.columns)
        /\ \A k \in 1..Len(cl_df.columns) :
               /\ HasOut(cl_df.columns[k])
               /\ OutCells(cl_df.columns[k]) = cl_df.data[k]

\* 品牌 and 商品 with a padded cell and a null come back as they were
C14_Witness ==
    /\ Cleaned
    /\ cl_df.columns = <<"pinpai", "shangpin">>
    /\ cl_df.data = << <<Cell_padded>>, <<None>> >>
    /\ OutCells("pinpai") = <<Cell_padded>>
    /\ OutCells("shangpin") = <<None>>

-----------------------------------------------------------------------------
(* Properties of info *)

\* C15: the diagnose operation (CLI command info) on a file that holds at
\* least one detectable table succeeds and returns, for each detected table
\* name, its row count, column count and column names, without cleaning.
C15_InfoReportsTables ==
    (info_pc = "done" /\ info_tables # <<>>) =>
        /\ info_exit = 0
        /\ Len(info_report) = Len(info_tables)
        /\ \A k \in 1..Len(info_tables) :
               /\ info_report[k].name = info_tables[k].name
               /\ info_report[k].row_count = info_tables[k].df.height
               /\ info_report[k].column_count = Len(info_tables[k].df.columns)
               /\ info_report[k].column_names = info_tables[k].df.columns

====
